---- MODULE Spec2Model ----
(***************************************************************************)
(* A model of the data-integrity pipeline of QuickMH Log: the entry        *)
(* collection of QuickMHLogApp, its validator, its persistence and its CSV *)
(* export/import (src/src/js/errorHandler.js, the JavaScript application   *)
(* class at lines 977-1905 and the helper classes at lines 1-303).         *)
(*                                                                         *)
(* Text is a sequence of characters.  A character is a one-character       *)
(* string; a run of plain characters that no operation of the program      *)
(* looks into (a date such as 2024-01-15, a domain key such as phq-9, a    *)
(* column name of the header) is written as one element.  Every operation  *)
(* of the codec (split on a comma or a line feed, trim, strip and double   *)
(* quotes) acts on the sequence as the code acts on the string.            *)
(***************************************************************************)
EXTENDS Integers, Sequences, FiniteSets, TLC

VARIABLES
    entries,          \* this.entries while it is an array
    cleaned,          \* TRUE once cleanup() has set this.entries and this.dom to null
    stored,           \* localStorage['quickMHLogEntries']
    currentSort,      \* this.currentSort (the sort of the history table)
    currentLanguage,  \* this.currentLanguage
    now,              \* the value Date.now() returns
    pending,          \* the FileReader reads started and not yet completed
    result,           \* what the last handler returned or reported
    failures,         \* how many localStorage writes have thrown so far
    orig,             \* round trip: the collection the export was taken from
    phase,            \* round trip: how far it has got ("app" in the application)
    input,            \* the argument of the function under study, outside the application
    errors,           \* ErrorHandler: this.errors
    logged,           \* ErrorHandler: how many records logError has been given so far
    calls,            \* createRateLimiter: the calls array of the closure
    executed,         \* createRateLimiter: the times at which fn was executed
    retry             \* withRetry: the state of one call of it

vars ==
    <<entries, cleaned, stored, currentSort, currentLanguage, now, pending, result,
      failures, orig, phase, input, errors, logged, calls, executed, retry>>

\* The helper classes, which the application model leaves alone
aux == <<input, errors, logged, calls, executed, retry>>

\* No call of withRetry under way
NoRetry == [state |-> "none"]

AuxInit ==
    /\ input = <<>>
    /\ errors = <<>>
    /\ logged = 0
    /\ calls = <<>>
    /\ executed = <<>>
    /\ retry = NoRetry

----------------------------------------------------------------------------
(* Characters *)

Comma == ","
DQuote == "\""
NL == "\n"
CR == "\r"
TAB == "\t"
SP == " "

\* The characters String.prototype.trim removes (those the model writes).
WhiteSpace == {SP, NL, CR, TAB}

Digits == <<"0", "1", "2", "3", "4", "5", "6", "7", "8", "9">>

\* The Persian digits U+06F0..U+06F9 of the fa catalog, in order.
PersianDigits == <<"p0", "p1", "p2", "p3", "p4", "p5", "p6", "p7", "p8", "p9">>

IsDigit(c) == \E i \in 1..10 : Digits[i] = c

DigitValue(c) == (CHOOSE i \in 1..10 : Digits[i] = c) - 1

Min(a, b) == IF a < b THEN a ELSE b

----------------------------------------------------------------------------
(* String operations of JavaScript, on sequences of characters *)

\* The value undefined where a string is expected (an entry without a note): it
\* is no string, and no text of the model holds its one element
Undefined == <<"undefined">>

\* value || '' of a string or undefined
OrEmpty(v) == IF v = Undefined THEN <<>> ELSE v

RECURSIVE TrimStart(_)
TrimStart(s) ==
    IF s # <<>> /\ Head(s) \in WhiteSpace THEN TrimStart(Tail(s)) ELSE s

RECURSIVE TrimEnd(_)
TrimEnd(s) ==
    IF s # <<>> /\ s[Len(s)] \in WhiteSpace
    THEN TrimEnd(SubSeq(s, 1, Len(s) - 1))
    ELSE s

\* String.prototype.trim
Trim(s) == TrimEnd(TrimStart(s))

\* String.prototype.split(sep) for a one-character separator
RECURSIVE Split(_, _)
Split(s, sep) ==
    IF \E i \in 1..Len(s) : s[i] = sep
    THEN LET i == CHOOSE k \in 1..Len(s) :
                     s[k] = sep /\ \A j \in 1..(k - 1) : s[j] # sep
         IN <<SubSeq(s, 1, i - 1)>> \o Split(SubSeq(s, i + 1, Len(s)), sep)
    ELSE <<s>>

\* Array.prototype.join(sep)
RECURSIVE Join(_, _)
Join(parts, sep) ==
    IF parts = <<>> THEN <<>>
    ELSE IF Len(parts) = 1 THEN parts[1]
    ELSE parts[1] \o <<sep>> \o Join(Tail(parts), sep)

\* str.replace(/c/g, to) for one character c
RECURSIVE ReplaceChar(_, _, _)
ReplaceChar(s, c, to) ==
    IF s = <<>> THEN <<>>
    ELSE (IF Head(s) = c THEN to ELSE <<Head(s)>>) \o ReplaceChar(Tail(s), c, to)

\* str.replace(/""/g, '"'): pairs are replaced left to right, without overlap
RECURSIVE UnescapeQuotes(_)
UnescapeQuotes(s) ==
    IF Len(s) >= 2 /\ s[1] = DQuote /\ s[2] = DQuote
    THEN <<DQuote>> \o UnescapeQuotes(SubSeq(s, 3, Len(s)))
    ELSE IF s = <<>> THEN <<>>
    ELSE <<Head(s)>> \o UnescapeQuotes(Tail(s))

\* str.replace(/^"|"$/g, ''): one leading quote, then one trailing quote of the rest
StripQuotes(s) ==
    LET a == IF s # <<>> /\ Head(s) = DQuote THEN Tail(s) ELSE s
    IN IF a # <<>> /\ a[Len(a)] = DQuote THEN SubSeq(a, 1, Len(a) - 1) ELSE a

----------------------------------------------------------------------------
(* Numbers: a JavaScript number is an integer, NaN or Infinity; JSON adds null *)

Num(n) == [k |-> "int", n |-> n]
NaN == [k |-> "nan", n |-> 0]
Infinity == [k |-> "inf", n |-> 0]
JsonNull == [k |-> "null", n |-> 0]

RECURSIVE NatToStr(_)
NatToStr(n) ==
    IF n < 10 THEN <<Digits[n + 1]>> ELSE NatToStr(n \div 10) \o <<Digits[(n % 10) + 1]>>

\* String(value) of a number
NumToString(v) ==
    CASE v.k = "int" -> NatToStr(v.n)
      [] v.k = "inf" -> <<"Infinity">>
      [] v.k = "nan" -> <<"NaN">>
      [] OTHER -> <<"null">>

RECURSIVE DigitsValue(_)
DigitsValue(s) ==
    IF s = <<>> THEN 0 ELSE DigitsValue(SubSeq(s, 1, Len(s) - 1)) * 10 + DigitValue(s[Len(s)])

\* Number(str): white space is trimmed, the empty string is 0, anything that is
\* not a numeral is NaN
StrToNumber(s) ==
    LET t == Trim(s)
    IN IF t = <<>> THEN Num(0)
       ELSE IF \A i \in 1..Len(t) : IsDigit(t[i]) THEN Num(DigitsValue(t))
       ELSE IF t = <<"Infinity">> THEN Infinity
       ELSE NaN

\* parseInt(str): the leading digits, NaN when there is none
RECURSIVE LeadingDigits(_)
LeadingDigits(s) ==
    IF s # <<>> /\ IsDigit(Head(s)) THEN <<Head(s)>> \o LeadingDigits(Tail(s)) ELSE <<>>

ParseInt(s) ==
    LET d == LeadingDigits(TrimStart(s))
    IN IF d = <<>> THEN NaN ELSE Num(DigitsValue(d))

\* isNaN(value) of a number (isNaN(null) is false: Number(null) is 0)
IsNaN(v) == v.k = "nan"

\* a <= b on numbers (false whenever NaN is involved)
NumLeq(a, b) ==
    CASE a.k = "nan" \/ b.k = "nan" -> FALSE
      [] b.k = "inf" -> TRUE
      [] a.k = "inf" -> FALSE
      [] OTHER -> (IF a.k = "int" THEN a.n ELSE 0) <= (IF b.k = "int" THEN b.n ELSE 0)

----------------------------------------------------------------------------
(* The assessment catalog: translations.en.domains and translations.fa.domains *)

CatalogKeys ==
    {"phq-9", "gad-7", "aaq-ii", "oci-r", "rosenberg", "maslach", "procrastination"}

\* Names every object inherits from Object.prototype: domains[name] is truthy
\* for them although they are no domain.
ObjectPrototypeKeys == {"constructor", "toString", "valueOf", "hasOwnProperty"}

EnScoreRange ==
    [k \in CatalogKeys |->
        CASE k = "phq-9" -> <<"0", "-", "2", "7">>
          [] k = "gad-7" -> <<"0", "-", "2", "1">>
          [] k = "aaq-ii" -> <<"7", "-", "4", "9">>
          [] k = "oci-r" -> <<"0", "-", "7", "2">>
          [] k = "rosenberg" -> <<"0", "-", "3", "0">>
          [] k = "maslach" -> <<"Varies", SP, "by", SP, "subscale">>
          [] OTHER -> <<"1", "2", "-", "6", "0">>]

FaScoreRange ==
    [k \in CatalogKeys |->
        CASE k = "phq-9" -> <<"p0", "-", "p2", "p7">>
          [] k = "gad-7" -> <<"p0", "-", "p2", "p1">>
          [] k = "aaq-ii" -> <<"p7", "-", "p4", "p9">>
          [] k = "oci-r" -> <<"p0", "-", "p7", "p2">>
          [] k = "rosenberg" -> <<"p0", "-", "p3", "p0">>
          [] k = "maslach" -> <<"fa-text", SP, "fa-text", SP, "fa-text", SP, "fa-text">>
          [] OTHER -> <<"p1", "p2", "-", "p6", "p0">>]

\* translations[lang]?.domains?.[key]: found is its truthiness, scoreRange its
\* scoreRange property (def = FALSE: undefined)
DomainOf(lang, key) ==
    IF Len(key) = 1 /\ key[1] \in CatalogKeys
    THEN [found |-> TRUE, def |-> TRUE,
          scoreRange |-> IF lang = "fa" THEN FaScoreRange[key[1]] ELSE EnScoreRange[key[1]]]
    ELSE IF Len(key) = 1 /\ key[1] \in ObjectPrototypeKeys
    THEN [found |-> TRUE, def |-> FALSE, scoreRange |-> <<>>]
    ELSE [found |-> FALSE, def |-> FALSE, scoreRange |-> <<>>]

\* A faulty test of the domainKey, by the truthiness of translations.en.domains[value]
HasDomainByLookup(key) == DomainOf("en", key).found

\* Object.prototype.hasOwnProperty.call(translations.en.domains, value)
HasOwnDomain(key) == Len(key) = 1 /\ key[1] \in CatalogKeys

----------------------------------------------------------------------------
(* The validator *)

\* Validator.isRequired, of a string or of a number
IsRequiredStr(v) == v # <<>> /\ v # Undefined
IsRequiredNum(v) == v.k # "null"

\* Validator.isNumber: !isNaN(value) && !isNaN(parseFloat(value))
IsNumber(v) == v.k \in {"int", "inf"}

\* The date strings new Date(value) accepts, among those the model writes
ValidDates == {"2024-01-15", "2024-02-20"}

\* Validator.isDate
IsDate(v) == Len(v) = 1 /\ v[1] \in ValidDates

NoteMaxLength == 1000

\* Validator.maxLength: typeof value === 'string' && value.length <= max
MaxLengthOk(v, max) == v # Undefined /\ Len(v) <= max

\* What the patterns of SecurityManager.containsMaliciousContent match, among the
\* texts the model writes: each pattern is written as one element.
MaliciousTokens == {"<script></script>", "javascript:", "onclick=", "eval("}

ContainsMaliciousContent(v) == \E i \in 1..Len(v) : v[i] \in MaliciousTokens

Fields == <<"id", "date", "domainKey", "score", "note">>

\* The messages of the rules of one field that fail, in rule order
\* (setupFormValidation registers the rules, FormValidator.validate runs each).
FieldErrors(f, data) ==
    CASE f = "id" ->
            IF IsRequiredStr(data.id) THEN <<>> ELSE <<"Entry ID is required">>
      [] f = "date" ->
            (IF IsRequiredStr(data.date) THEN <<>> ELSE <<"Date is required">>)
            \o (IF IsDate(data.date) THEN <<>> ELSE <<"Please enter a valid date">>)
      [] f = "domainKey" ->
            (IF IsRequiredStr(data.domainKey) THEN <<>> ELSE <<"Assessment type is required">>)
            \o (IF HasOwnDomain(data.domainKey) THEN <<>> ELSE <<"Invalid assessment type">>)
      [] f = "score" ->
            (IF IsRequiredNum(data.score) THEN <<>> ELSE <<"Score is required">>)
            \o (IF IsNumber(data.score) THEN <<>> ELSE <<"Score must be a number">>)
      [] OTHER ->
            (IF MaxLengthOk(data.note, NoteMaxLength) THEN <<>>
             ELSE <<"Note must not exceed 1000 characters">>)
            \o (IF data.note = <<>> \/ data.note = Undefined
                   \/ ~ContainsMaliciousContent(data.note) THEN <<>>
                ELSE <<"Note contains potentially unsafe content">>)

\* FormValidator.validate
Validate(data) ==
    LET bad == {i \in 1..Len(Fields) : FieldErrors(Fields[i], data) # <<>>}
    IN [isValid |-> bad = {},
        errors |-> [f \in {Fields[i] : i \in bad} |-> FieldErrors(f, data)]]

\* The Persian digits of a range replaced by their Latin digits
NormalizeDigits(s) ==
    [i \in 1..Len(s) |->
        IF \E d \in 1..10 : PersianDigits[d] = s[i]
        THEN Digits[CHOOSE d \in 1..10 : PersianDigits[d] = s[i]]
        ELSE s[i]]

\* QuickMHLogApp.validateScoreRange(score, scoreRange); range.def = FALSE: undefined
validateScoreRange(score, range) ==
    IF ~range.def \/ range.scoreRange = <<>> \/ score.k = "null" THEN FALSE
    ELSE LET rangeParts == Split(NormalizeDigits(range.scoreRange), "-")
         IN IF Len(rangeParts) # 2 THEN TRUE
            ELSE LET min == ParseInt(rangeParts[1])
                     max == ParseInt(rangeParts[2])
                 IN IF IsNaN(min) \/ IsNaN(max) THEN TRUE
                    ELSE NumLeq(min, score) /\ NumLeq(score, max)

----------------------------------------------------------------------------
(* Sorting: QuickMHLogApp.sortEntries, which renderHistoryTable calls first *)

\* The characters in the order of their code units (a run of plain characters
\* stands where its first character does).
CharOrder ==
    <<TAB, NL, CR, SP, DQuote, Comma,
      "0", "1", "2", "2024-01-15", "2024-02-20", "3", "4", "5", "6", "7", "8", "9",
      "<script></script>", "Infinity", "NaN",
      "a", "b", "constructor", "eval(", "javascript:", "not-a-date", "onclick=",
      "phq-9", "unknown-domain">>

Rank(c) == CHOOSE i \in 1..Len(CharOrder) : CharOrder[i] = c

\* a < b on strings
RECURSIVE StrLess(_, _)
StrLess(a, b) ==
    IF b = <<>> THEN FALSE
    ELSE IF a = <<>> THEN TRUE
    ELSE IF Head(a) = Head(b) THEN StrLess(Tail(a), Tail(b))
    ELSE Rank(Head(a)) < Rank(Head(b))

\* valA < valB for valA = a[column], valB = b[column]; no entry has a property
\* named domain, and undefined < undefined is false
ColumnLess(a, b, column) ==
    CASE column = "date" -> StrLess(a.date, b.date)
      [] column = "note" -> StrLess(a.note, b.note)
      [] column = "score" -> NumLeq(a.score, b.score) /\ ~NumLeq(b.score, a.score)
      [] OTHER -> FALSE

\* The comparator of sortEntries
Comparison(a, b, sort) ==
    LET comparison == IF ColumnLess(b, a, sort.column) THEN 1
                      ELSE IF ColumnLess(a, b, sort.column) THEN -1
                      ELSE 0
    IN IF sort.direction = "desc" THEN comparison * (-1) ELSE comparison

\* e put into a sorted sequence after every element that does not come after it
InsertSorted(sorted, e, sort) ==
    LET after == {i \in 1..Len(sorted) : Comparison(sorted[i], e, sort) > 0}
        at == IF after = {} THEN Len(sorted) + 1
              ELSE CHOOSE i \in after : \A j \in after : i <= j
    IN SubSeq(sorted, 1, at - 1) \o <<e>> \o SubSeq(sorted, at, Len(sorted))

\* Array.prototype.sort with the comparator of sortEntries: a stable sort
RECURSIVE sortEntries(_, _)
sortEntries(ents, sort) ==
    IF ents = <<>> THEN <<>>
    ELSE InsertSorted(sortEntries(SubSeq(ents, 1, Len(ents) - 1), sort), ents[Len(ents)], sort)

----------------------------------------------------------------------------
(* Persistence: SafeJSON.stringify and localStorage *)

\* JSON.stringify writes NaN and Infinity as null
JsonScore(v) == IF v.k \in {"nan", "inf"} THEN JsonNull ELSE v

\* SafeJSON.stringify(this.entries): the text of an array, or of null
Stringify(ents, isNull) ==
    IF isNull THEN [kind |-> "null", items |-> <<>>]
    ELSE [kind |-> "array",
          items |-> [i \in 1..Len(ents) |-> [ents[i] EXCEPT !.score = JsonScore(@)]]]

NotStored == [kind |-> "absent", items |-> <<>>]

\* loadEntries, in the constructor: this.entries after it.  Nothing under the
\* key leaves the empty array of the constructor; a text that is not the text of
\* an array gives the empty array; the entries are taken as they are stored.
loadEntries(st) == IF st.kind = "array" THEN st.items ELSE <<>>

\* saveEntries: the value under the key after it; a setItem that throws is caught
\* inside saveEntries and leaves the key as it was
saveEntries(ents, isNull, old, writeOk) ==
    IF writeOk THEN Stringify(ents, isNull) ELSE old

----------------------------------------------------------------------------
(* The CSV codec *)

BOM == "BOM"

HeaderLine == <<"id", Comma, "date", Comma, "domainKey", Comma, "score", Comma, "note">>

\* sanitizeCSVValue(value) of a string: [\r\n\t] become spaces, then trim
sanitizeCSVValue(s) ==
    Trim([i \in 1..Len(s) |-> IF s[i] \in {CR, NL, TAB} THEN SP ELSE s[i]])

\* A faulty escapeCSV, which leaves the quotes of the text single
escapeCSVQuotesSingle(str) == <<DQuote>> \o OrEmpty(str) \o <<DQuote>>

\* escapeCSV(str): `"${(str || '').replace(/"/g, '""')}"`
escapeCSV(str) ==
    <<DQuote>> \o ReplaceChar(OrEmpty(str), DQuote, <<DQuote, DQuote>>) \o <<DQuote>>

\* One row of the export
ExportRow(entry) ==
    Join(<<sanitizeCSVValue(entry.id),
           sanitizeCSVValue(entry.date),
           sanitizeCSVValue(entry.domainKey),
           IF entry.score = JsonNull THEN <<>>
           ELSE sanitizeCSVValue(NumToString(entry.score)),
           escapeCSV(OrEmpty(entry.note))>>, Comma)

\* The entries of the export: those that pass validate
ValidEntries(ents) == SelectSeq(ents, LAMBDA e : Validate(e).isValid)

\* The text of the blob exportToCSV builds from a non-empty collection
ExportText(ents) ==
    LET valid == ValidEntries(ents)
        csvRows == <<HeaderLine>> \o [i \in 1..Len(valid) |-> ExportRow(valid[i])]
    IN <<BOM>> \o Join(csvRows, NL)

\* parts[i]?.trim(): def = FALSE stands for undefined
Part(parts, i) ==
    IF i <= Len(parts) THEN [def |-> TRUE, s |-> Trim(parts[i])]
    ELSE [def |-> FALSE, s |-> <<>>]

\* parseCSVRow(rowStr)
parseCSVRow(rowStr) ==
    LET parts == Split(rowStr, Comma)
    IN [id |-> Part(parts, 1),
        date |-> Part(parts, 2),
        domainKey |-> Part(parts, 3),
        score |-> Part(parts, 4),
        note |-> Trim(Join(SubSeq(parts, 5, Len(parts)), Comma))]

\* The truthiness of parts[i]?.trim()
Truthy(p) == p.def /\ p.s # <<>>

\* A faulty isValidImportRow, which does not ask for a score
isValidImportRowAnyScore(r) ==
    /\ Truthy(r.id)
    /\ Truthy(r.date)
    /\ Truthy(r.domainKey)
    /\ r.score.def
    /\ DomainOf("en", r.domainKey.s).found
    /\ ~IsNaN(StrToNumber(r.score.s))

\* isValidImportRow(id, date, domainKey, score, note)
isValidImportRow(r) ==
    /\ Truthy(r.id)
    /\ Truthy(r.date)
    /\ Truthy(r.domainKey)
    /\ Truthy(r.score)
    /\ DomainOf("en", r.domainKey.s).found
    /\ ~IsNaN(StrToNumber(r.score.s))

\* The entry importFromCSV builds from a row that isValidImportRow accepts
NewEntry(r) ==
    [id |-> r.id.s,
     date |-> r.date.s,
     domainKey |-> r.domainKey.s,
     score |-> StrToNumber(r.score.s),
     note |-> IF r.note # <<>> THEN UnescapeQuotes(StripQuotes(r.note)) ELSE <<>>]

maxImportRows == 10000

\* A faulty turn of the forEach, which does not look for the id in the collection
ImportRowNoDuplicateCheck(acc, isNull, rowStr) ==
    IF Trim(rowStr) = <<>> THEN acc
    ELSE LET r == parseCSVRow(rowStr)
         IN IF isValidImportRow(r) /\ ~isNull /\ Validate(NewEntry(r)).isValid
            THEN [acc EXCEPT !.entries = Append(@, NewEntry(r)), !.importedCount = @ + 1]
            ELSE [acc EXCEPT !.skippedCount = @ + 1]

\* One turn of the forEach of reader.onload.  acc is the collection and the two
\* counters; with this.entries null, this.entries.some throws and the row's catch
\* counts the row as skipped.
ImportRow(acc, isNull, rowStr) ==
    IF Trim(rowStr) = <<>> THEN acc
    ELSE LET r == parseCSVRow(rowStr)
         IN IF isValidImportRow(r)
            THEN IF isNull
                 THEN [acc EXCEPT !.skippedCount = @ + 1]
                 ELSE IF ~\E i \in 1..Len(acc.entries) : acc.entries[i].id = r.id.s
                 THEN IF Validate(NewEntry(r)).isValid
                      THEN [acc EXCEPT !.entries = Append(@, NewEntry(r)),
                                       !.importedCount = @ + 1]
                      ELSE [acc EXCEPT !.skippedCount = @ + 1]
                 ELSE [acc EXCEPT !.skippedCount = @ + 1]
            ELSE [acc EXCEPT !.skippedCount = @ + 1]

\* A faulty forEach, which a row that isValidImportRow refuses ends
RECURSIVE ImportRowsUntilMalformed(_, _, _)
ImportRowsUntilMalformed(acc, isNull, rows) ==
    IF rows = <<>> THEN acc
    ELSE IF Trim(Head(rows)) # <<>> /\ ~isValidImportRow(parseCSVRow(Head(rows)))
    THEN [acc EXCEPT !.skippedCount = @ + 1]
    ELSE ImportRowsUntilMalformed(ImportRow(acc, isNull, Head(rows)), isNull, Tail(rows))

\* rows.slice(0, maxImportRows).forEach(...)
RECURSIVE ImportRows(_, _, _)
ImportRows(acc, isNull, rows) ==
    IF rows = <<>> THEN acc
    ELSE ImportRows(ImportRow(acc, isNull, Head(rows)), isNull, Tail(rows))

\* A faulty slice, which hands every row to the forEach
sliceAllRows(rows) == rows

\* rows.slice(0, maxImportRows)
sliceMaxImportRows(rows) == SubSeq(rows, 1, Min(Len(rows), maxImportRows))

\* The rows reader.onload processes: text.split('\n').slice(1), at most maxImportRows
DataRows(text) == sliceMaxImportRows(Tail(Split(text, NL)))

\* A faulty import, which starts from the empty collection
ImportTextFresh(ents, isNull, text) ==
    ImportRows([entries |-> <<>>, importedCount |-> 0, skippedCount |-> 0],
               isNull, DataRows(text))

\* The collection and the counters after the forEach
ImportText(ents, isNull, text) ==
    ImportRows([entries |-> ents, importedCount |-> 0, skippedCount |-> 0],
               isNull, DataRows(text))

----------------------------------------------------------------------------
(* The handlers.  Each takes the application state app (entries, cleaned,    *)
(* stored, currentSort, currentLanguage) and gives the entries and the      *)
(* stored value after it and what it reported.                              *)

\* What a handler reported: ret is its return value (FALSE for a handler that
\* returns nothing), threw whether an exception left it, saved what became of
\* the localStorage write, toast the kind of the last toast shown.
Report(op, ret, threw, saved, toast, importedCount, skippedCount, text) ==
    [op |-> op, ret |-> ret, threw |-> threw, saved |-> saved, toast |-> toast,
     importedCount |-> importedCount, skippedCount |-> skippedCount, text |-> text]

Idle == Report("none", FALSE, FALSE, "none", "none", 0, 0, <<>>)

\* A handler that ended by an exception leaving it: with this.dom null, the
\* showToast of its catch block throws in turn
Threw(op, app) ==
    [entries |-> app.entries, stored |-> app.stored,
     result |-> Report(op, FALSE, TRUE, "none", "none", 0, 0, <<>>)]

\* A handler that changed nothing and returned ret after a toast
Refused(op, app, ret, toast) ==
    [entries |-> app.entries, stored |-> app.stored,
     result |-> Report(op, ret, FALSE, "none", toast, 0, 0, <<>>)]

Saved(writeOk) == IF writeOk THEN "ok" ELSE "failed"

\* A faulty addEntry, which pushes and stores the entry before it validates it
addEntryPushFirst(entry, app, writeOk) ==
    LET pushed == Append(app.entries, entry)
    IN [entries |-> pushed,
        stored |-> saveEntries(pushed, FALSE, app.stored, writeOk),
        result |-> Report("addEntry", Validate(entry).isValid, FALSE, Saved(writeOk),
                          IF Validate(entry).isValid THEN "success" ELSE "error",
                          0, 0, <<>>)]

\* addEntry(entry); writeOk: whether localStorage.setItem succeeds
addEntry(entry, app, writeOk) ==
    IF app.cleaned THEN Threw("addEntry", app)
    ELSE IF ~Validate(entry).isValid THEN Refused("addEntry", app, FALSE, "error")
    ELSE LET domain == DomainOf(app.currentLanguage, entry.domainKey)
         IN IF domain.found /\ ~validateScoreRange(entry.score, domain)
            THEN Refused("addEntry", app, FALSE, "error")
            ELSE LET pushed == Append(app.entries, entry)
                 IN [entries |-> sortEntries(pushed, app.currentSort),
                     stored |-> saveEntries(pushed, FALSE, app.stored, writeOk),
                     result |-> Report("addEntry", TRUE, FALSE, Saved(writeOk),
                                       "success", 0, 0, <<>>)]

\* deleteEntry(id)
deleteEntry(id, app, writeOk) ==
    IF app.cleaned THEN Threw("deleteEntry", app)
    ELSE IF id = <<>> THEN Refused("deleteEntry", app, FALSE, "error")
    ELSE LET filtered == SelectSeq(app.entries, LAMBDA e : e.id # id)
         IN IF Len(filtered) < Len(app.entries)
            THEN [entries |-> sortEntries(filtered, app.currentSort),
                  stored |-> saveEntries(filtered, FALSE, app.stored, writeOk),
                  result |-> Report("deleteEntry", TRUE, FALSE, Saved(writeOk),
                                    "success", 0, 0, <<>>)]
            ELSE Refused("deleteEntry", app, FALSE, "error")

\* exportToCSV(); text is the content of the blob
exportToCSV(app) ==
    IF app.cleaned THEN Threw("exportToCSV", app)
    ELSE IF Len(app.entries) = 0 THEN Refused("exportToCSV", app, FALSE, "error")
    ELSE [entries |-> app.entries, stored |-> app.stored,
          result |-> Report("exportToCSV", TRUE, FALSE, "none", "success", 0, 0,
                            ExportText(app.entries))]

\* A faulty reader.onload, which stores and shows the collection after the first
\* data row only
onloadFirstRow(text, app, writeOk) ==
    IF Trim(text) = <<>> \/ app.cleaned THEN Threw("onload", app)
    ELSE LET rows == DataRows(text)
             acc == ImportRows([entries |-> app.entries, importedCount |-> 0,
                                skippedCount |-> 0],
                               FALSE, SubSeq(rows, 1, Min(1, Len(rows))))
         IN [entries |-> sortEntries(acc.entries, app.currentSort),
             stored |-> saveEntries(acc.entries, FALSE, app.stored, writeOk),
             result |-> Report("onload", FALSE, FALSE, Saved(writeOk),
                               IF acc.importedCount > 0 THEN "success" ELSE "error",
                               acc.importedCount, acc.skippedCount, text)]

\* reader.onload of importFromCSV, for the text of the file.  With this.entries
\* null, saveEntries writes the text of null, renderHistoryTable throws, and the
\* catch and the finally blocks throw in turn.
onload(text, app, writeOk) ==
    IF Trim(text) = <<>>
    THEN IF app.cleaned THEN Threw("onload", app)
         ELSE Refused("onload", app, FALSE, "error")
    ELSE LET acc == ImportText(app.entries, app.cleaned, text)
             written == saveEntries(acc.entries, app.cleaned, app.stored, writeOk)
         IN IF app.cleaned
            THEN [entries |-> app.entries, stored |-> written,
                  result |-> Report("onload", FALSE, TRUE, Saved(writeOk), "none",
                                    acc.importedCount, acc.skippedCount, text)]
            ELSE [entries |-> sortEntries(acc.entries, app.currentSort),
                  stored |-> written,
                  result |-> Report("onload", FALSE, FALSE, Saved(writeOk),
                                    IF acc.importedCount > 0 THEN "success" ELSE "error",
                                    acc.importedCount, acc.skippedCount, text)]

----------------------------------------------------------------------------
(* Bounds and inputs *)

MaxEntries == 2   \* addEntry is not offered to a collection of this size
MaxClock == 2     \* the clock stops at this value
MaxPending == 2   \* file reads in flight at once
MaxWriteFailures == 1   \* localStorage.setItem throws at most this often

Date1 == <<"2024-01-15">>
Date2 == <<"2024-02-20">>
Phq9 == <<"phq-9">>

\* What the form can hold at a submit
FormDates == {Date1, <<>>}
FormDomainKeys == {Phq9, <<"unknown-domain">>}
FormScores == {<<"5">>, <<"3", "0">>}
FormNotes == {<<SP, "a", SP>>}

\* A line of a CSV file from its five fields
Line(id, date, domainKey, score, note) ==
    Join(<<id, date, domainKey, score, note>>, Comma)

RowOk1 == Line(<<"1">>, Date1, Phq9, <<"5">>, <<DQuote, "a", DQuote>>)
RowOk9 == Line(<<"9">>, Date1, Phq9, <<"5">>, <<DQuote, DQuote>>)
RowOther9 == Line(<<"9">>, Date2, Phq9, <<"7">>, <<DQuote, "b", DQuote>>)
RowMalformed == <<"a", Comma, "b">>
RowUnknownDomain == Line(<<"8">>, Date1, <<"unknown-domain">>, <<"5">>, <<DQuote, DQuote>>)
RowConstructor == Line(<<"8">>, Date1, <<"constructor">>, <<"5">>, <<DQuote, DQuote>>)
RowInfinity == Line(<<"7">>, Date1, Phq9, <<"Infinity">>, <<DQuote, DQuote>>)
RowNotNumeric == Line(<<"8">>, Date1, Phq9, <<"a">>, <<DQuote, DQuote>>)
RowNoScore == Line(<<"8">>, Date1, Phq9, <<>>, <<DQuote, DQuote>>)
RowNoId == Line(<<>>, Date1, Phq9, <<"5">>, <<DQuote, DQuote>>)
RowBadDate == Line(<<"8">>, <<"not-a-date">>, Phq9, <<"5">>, <<DQuote, DQuote>>)

FileText(rows) == Join(<<HeaderLine>> \o rows, NL)

\* A file with a malformed row between two rows that import
FileMixed == FileText(<<RowOk1, RowMalformed, RowOk9>>)

\* A file of rows of which one imports (the row of id 7), with a blank line
FileRejects ==
    FileText(<<RowOther9, RowConstructor, <<>>, RowOk9, RowInfinity, RowNotNumeric,
               RowNoId, RowNoScore, RowBadDate, RowUnknownDomain>>)

\* The texts of the files offered to the import
FileTexts == {FileMixed, FileRejects, <<>>}

\* event.target.files[0]: none, or a file with a name, a size and a text
NoFile == [some |-> FALSE, csv |-> FALSE, big |-> FALSE, text |-> <<>>]

Files ==
    {NoFile}
    \cup {[some |-> TRUE, csv |-> TRUE, big |-> FALSE, text |-> t] : t \in FileTexts}
    \cup {[some |-> TRUE, csv |-> FALSE, big |-> FALSE, text |-> <<>>],
          [some |-> TRUE, csv |-> TRUE, big |-> TRUE, text |-> <<>>]}

\* The ids a delete can name: those of the rows shown, an id of no entry, none
DeleteIds == {<<"1">>, <<"2">>, <<"9">>, <<"4">>, <<>>}

----------------------------------------------------------------------------
(* The application as a state machine *)

\* A write may throw while fewer than MaxWriteFailures have
WriteAllowed(writeOk) == writeOk \/ failures < MaxWriteFailures

\* 1 when the handler's localStorage write threw
Thrown(r) == IF r.saved = "failed" THEN 1 ELSE 0

App ==
    [entries |-> entries, cleaned |-> cleaned, stored |-> stored,
     currentSort |-> currentSort, currentLanguage |-> currentLanguage]

\* The state after the constructor on a first run: nothing stored, the defaults
Init ==
    /\ entries = <<>>
    /\ cleaned = FALSE
    /\ stored = NotStored
    /\ currentSort = [column |-> "date", direction |-> "desc"]
    /\ currentLanguage = "en"
    /\ now = 1
    /\ pending = {}
    /\ result = Idle
    /\ failures = 0
    /\ orig = <<>>
    /\ phase = "app"
    /\ AuxInit

\* Time passes: Date.now() grows
Tick ==
    /\ now < MaxClock
    /\ now' = now + 1
    /\ result' = Idle
    /\ UNCHANGED aux
    /\ UNCHANGED <<entries, cleaned, stored, currentSort, currentLanguage, pending, failures, orig, phase>>

\* The submit handler of the form: it builds the entry (id = Date.now()) and
\* calls addEntry.  With this.dom null it throws before that.
SubmitForm ==
    /\ Len(entries) < MaxEntries
    /\ \E date \in FormDates, domainKey \in FormDomainKeys,
          score \in FormScores, note \in FormNotes, writeOk \in BOOLEAN :
          LET formData == [id |-> NatToStr(now), date |-> date, domainKey |-> domainKey,
                           score |-> StrToNumber(score), note |-> Trim(note)]
              out == IF cleaned THEN Threw("submit", App)
                     ELSE addEntry(formData, App, writeOk)
          IN /\ WriteAllowed(writeOk)
             /\ entries' = out.entries
             /\ stored' = out.stored
             /\ result' = out.result
             /\ failures' = failures + Thrown(out.result)
    /\ UNCHANGED aux
    /\ UNCHANGED <<cleaned, currentSort, currentLanguage, now, pending, orig, phase>>

\* The click handler of a delete button, after the confirm
DeleteEntry ==
    /\ \E id \in DeleteIds, writeOk \in BOOLEAN :
          LET out == deleteEntry(id, App, writeOk)
          IN /\ WriteAllowed(writeOk)
             /\ entries' = out.entries
             /\ stored' = out.stored
             /\ result' = out.result
             /\ failures' = failures + Thrown(out.result)
    /\ UNCHANGED aux
    /\ UNCHANGED <<cleaned, currentSort, currentLanguage, now, pending, orig, phase>>

\* The click handler of the export button
ExportToCSV ==
    /\ result' = exportToCSV(App).result
    /\ UNCHANGED aux
    /\ UNCHANGED <<entries, cleaned, stored, currentSort, currentLanguage, now, pending, failures,
                   orig, phase>>

\* importFromCSV(event), the change handler of the file input: it checks the
\* file and starts reading it
ImportFromCSV ==
    /\ \E file \in Files :
          IF ~file.some
          THEN /\ result' = Report("importFromCSV", FALSE, FALSE, "none", "none", 0, 0, <<>>)
               /\ pending' = pending
          ELSE IF ~file.csv \/ file.big
          THEN /\ result' = Report("importFromCSV", FALSE, cleaned, "none",
                                   IF cleaned THEN "none" ELSE "error", 0, 0, <<>>)
               /\ pending' = pending
          ELSE /\ Cardinality(pending \cup {file.text}) <= MaxPending
               /\ result' = Report("importFromCSV", FALSE, FALSE, "none", "none", 0, 0, <<>>)
               /\ pending' = pending \cup {file.text}
    /\ UNCHANGED aux
    /\ UNCHANGED <<entries, cleaned, stored, currentSort, currentLanguage, now, failures, orig, phase>>

\* reader.onload: a read completes
OnLoad ==
    /\ \E text \in pending, writeOk \in BOOLEAN :
          LET out == onload(text, App, writeOk)
          IN /\ WriteAllowed(writeOk)
             /\ entries' = out.entries
             /\ stored' = out.stored
             /\ result' = out.result
             /\ failures' = failures + Thrown(out.result)
             /\ pending' = pending \ {text}
    /\ UNCHANGED aux
    /\ UNCHANGED <<cleaned, currentSort, currentLanguage, now, orig, phase>>

\* reader.onerror: a read fails
OnError ==
    /\ \E text \in pending :
          /\ pending' = pending \ {text}
          /\ result' = Report("onerror", FALSE, cleaned, "none",
                              IF cleaned THEN "none" ELSE "error", 0, 0, <<>>)
    /\ UNCHANGED aux
    /\ UNCHANGED <<entries, cleaned, stored, currentSort, currentLanguage, now, failures, orig, phase>>

\* cleanup(), the beforeunload handler
Cleanup ==
    /\ cleaned' = TRUE
    /\ entries' = <<>>
    /\ result' = Report("cleanup", FALSE, FALSE, "none", "none", 0, 0, <<>>)
    /\ UNCHANGED aux
    /\ UNCHANGED <<stored, currentSort, currentLanguage, now, pending, failures, orig, phase>>

Next ==
    \/ Tick
    \/ SubmitForm
    \/ DeleteEntry
    \/ ExportToCSV
    \/ ImportFromCSV
    \/ OnLoad
    \/ OnError
    \/ Cleanup

Spec == Init /\ [][Next]_vars

----------------------------------------------------------------------------
(* The round trip: a collection is exported, the file is imported into a    *)
(* fresh empty collection (a first run elsewhere), and imported once more.  *)

MaxNoteLen == 2   \* the longest note of the round trip
MaxColl == 2      \* the largest collection of the round trip

\* The characters of the notes of the round trip
NoteAlphabet == {"a", Comma, DQuote, SP, NL}

RECURSIVE SeqsUpTo(_, _)
SeqsUpTo(S, n) ==
    IF n = 0 THEN {<<>>}
    ELSE LET shorter == SeqsUpTo(S, n - 1)
         IN shorter \cup {Append(t, c) : t \in {u \in shorter : Len(u) = n - 1}, c \in S}

CodecNotes == SeqsUpTo(NoteAlphabet, MaxNoteLen)

\* The first entry takes every note; the others, which only make the collection
\* longer, take few
CodecEntries(i) ==
    {[id |-> NatToStr(i), date |-> Date1, domainKey |-> Phq9, score |-> sc, note |-> n] :
        sc \in IF i = 1 THEN {Num(0), Num(12)} ELSE {Num(5)},
        n \in IF i = 1 THEN CodecNotes ELSE {<<>>, <<"a", Comma, DQuote>>}}

RECURSIVE Collections(_)
Collections(n) ==
    IF n = 0 THEN {<<>>}
    ELSE {Append(c, e) : c \in Collections(n - 1), e \in CodecEntries(n)}

\* A non-empty collection of entries that pass validate, with distinct ids
CodecInit ==
    /\ entries \in UNION {Collections(n) : n \in 1..MaxColl}
    /\ cleaned = FALSE
    /\ stored = Stringify(entries, FALSE)
    /\ currentSort = [column |-> "date", direction |-> "desc"]
    /\ currentLanguage = "en"
    /\ now = 1
    /\ pending = {}
    /\ result = Idle
    /\ failures = 0
    /\ orig = <<>>
    /\ phase = "start"
    /\ AuxInit

\* exportToCSV(): the browser saves the blob as a file
CodecExport ==
    /\ phase = "start"
    /\ result' = exportToCSV(App).result
    /\ orig' = entries
    /\ phase' = "exported"
    /\ UNCHANGED aux
    /\ UNCHANGED <<entries, cleaned, stored, currentSort, currentLanguage, now, pending, failures>>

\* The file is taken to a first run of the application: nothing stored, an empty
\* collection; the user picks the file, importFromCSV starts reading it
CodecFresh ==
    /\ phase = "exported"
    /\ entries' = <<>>
    /\ stored' = NotStored
    /\ pending' = {result.text}
    /\ phase' = "fresh"
    /\ UNCHANGED aux
    /\ UNCHANGED <<cleaned, currentSort, currentLanguage, now, result, failures, orig>>

\* reader.onload: the first import; the user then picks the same file again
CodecImport ==
    /\ phase = "fresh"
    /\ \E text \in pending :
          LET out == onload(text, App, TRUE)
          IN /\ entries' = out.entries
             /\ stored' = out.stored
             /\ result' = out.result
    /\ phase' = "imported"
    /\ UNCHANGED aux
    /\ UNCHANGED <<cleaned, currentSort, currentLanguage, now, pending, failures, orig>>

\* reader.onload: the second import of the same text
CodecImportAgain ==
    /\ phase = "imported"
    /\ \E text \in pending :
          LET out == onload(text, App, TRUE)
          IN /\ entries' = out.entries
             /\ stored' = out.stored
             /\ result' = out.result
    /\ phase' = "again"
    /\ pending' = {}
    /\ UNCHANGED aux
    /\ UNCHANGED <<cleaned, currentSort, currentLanguage, now, failures, orig>>

CodecNext ==
    \/ CodecExport
    \/ CodecFresh
    \/ CodecImport
    \/ CodecImportAgain

CodecSpec == CodecInit /\ [][CodecNext]_vars

----------------------------------------------------------------------------
(* Collections as sets and bags *)

Range(seq) == {seq[i] : i \in 1..Len(seq)}

Ids(ents) == {ents[i].id : i \in 1..Len(ents)}

Count(ents, e) == Cardinality({i \in 1..Len(ents) : ents[i] = e})

\* The rows of each file offered to the import, as parseCSVRow reads them; a
\* blank row, which the forEach passes over, is marked
FileRows ==
    [t \in FileTexts |->
        [i \in 1..Len(DataRows(t)) |->
            [blank |-> Trim(DataRows(t)[i]) = <<>>, r |-> parseCSVRow(DataRows(t)[i])]]]

NonBlankRows(text) == {i \in 1..Len(FileRows[text]) : ~FileRows[text][i].blank}

RowAt(text, i) == FileRows[text][i].r

\* A step in which reader.onload processed the rows of a file
OnLoadStep == result'.op = "onload" /\ Trim(result'.text) # <<>>

----------------------------------------------------------------------------
(* The claims *)

\* C1: in every state reached from the empty collection by form submissions,
\* deletions and CSV imports, the ids of the collection are pairwise distinct.
C1_IdsPairwiseDistinct ==
    \A i, j \in 1..Len(entries) : i # j => entries[i].id # entries[j].id

\* C4: an import skips and counts as skipped every row whose id is the id of an
\* entry of the collection, be it there before the import or added by an earlier
\* row of the file; the entries that were there keep every field: each entry of
\* before is there as often after, an id of before names no further entry after,
\* an id new to the collection names one entry at most, and every non-blank row
\* that did not add an entry is counted as skipped.
C4_ImportDeduplicates ==
    [][(OnLoadStep /\ ~cleaned) =>
          /\ \A e \in Range(entries) : Count(entries', e) = Count(entries, e)
          /\ \A e \in Range(entries') : e.id \in Ids(entries) => e \in Range(entries)
          /\ \A e \in Range(entries') :
                e.id \notin Ids(entries) =>
                   Cardinality({k \in 1..Len(entries') : entries'[k].id = e.id}) = 1
          /\ result'.importedCount = Len(entries') - Len(entries)
          /\ result'.skippedCount
                = Cardinality(NonBlankRows(result'.text)) - result'.importedCount]_vars

\* C4, its case: FileRejects was imported into a collection that held the entry
\* of id 9 of FileMixed; the row of id 9 and another date that opens FileRejects
\* was skipped, and the entry is as it was.
C4_Witness ==
    /\ result.op = "onload"
    /\ ~cleaned
    /\ result.text = FileRejects
    /\ result.skippedCount >= 2
    /\ \E i \in 1..Len(entries) : entries[i] = NewEntry(parseCSVRow(RowOk9))
    /\ ~\E i \in 1..Len(entries) : entries[i] = NewEntry(parseCSVRow(RowOther9))

\* C2: round trip.  For every non-empty collection of entries that pass validate,
\* whatever their notes hold (commas, double quotes, surrounding blanks, line
\* breaks), the import of its export into a fresh empty collection gives the
\* same set of entries, every field equal.
C2_RoundTrip ==
    phase = "imported" => Range(entries) = Range(orig)

\* C3: a second import of the text of an export, into the collection the first
\* import filled, leaves the collection as it is and reports importedCount = 0
\* and a skippedCount that is the number of data rows of the file, one for each
\* entry exported.
C3_ImportIdempotent ==
    [][phase' = "again" =>
          /\ entries' = entries
          /\ result'.importedCount = 0
          /\ result'.skippedCount = Len(ValidEntries(orig))]_vars

\* The rows of each file that isValidImportRow refuses
MalformedRowsOf ==
    [t \in FileTexts |-> {i \in NonBlankRows(t) : ~isValidImportRow(RowAt(t, i))}]

MalformedRows(text) == MalformedRowsOf[text]

\* The rows of each file that are well formed: isValidImportRow accepts them and
\* the entry they make passes validate
WellFormedRowsOf ==
    [t \in FileTexts |->
        {i \in NonBlankRows(t) \ MalformedRows(t) : Validate(NewEntry(RowAt(t, i))).isValid}]

WellFormedRows(text) == WellFormedRowsOf[text]

\* C5: for every file and every place of a malformed row in it, and of a row whose
\* processing raises (every accepted row, once cleanup() has run), that row is
\* skipped and adds 1 to skippedCount: the two counters add up to the non-blank
\* rows and nothing is imported from such a row; and every well-formed row that
\* comes after it and whose id is neither in the collection nor in an earlier
\* well-formed row is imported.
C5_RowFailureIsolated ==
    [][OnLoadStep =>
          LET text == result'.text
              raising == IF cleaned THEN NonBlankRows(text) \ MalformedRows(text) ELSE {}
              failing == MalformedRows(text) \cup raising
          IN /\ result'.importedCount + result'.skippedCount = Cardinality(NonBlankRows(text))
             /\ result'.skippedCount >= Cardinality(failing)
             /\ result'.importedCount <= Cardinality(NonBlankRows(text) \ failing)
             /\ ~cleaned =>
                   \A j \in WellFormedRows(text) :
                      (/\ \E i \in failing : i < j
                       /\ RowAt(text, j).id.s \notin Ids(entries)
                       /\ \A i \in WellFormedRows(text) :
                             i < j => RowAt(text, i).id.s # RowAt(text, j).id.s)
                         => NewEntry(RowAt(text, j)) \in Range(entries')]_vars

\* C5, its case: FileMixed was imported into a collection without the id 9; its
\* malformed second row was skipped and counted, its third row was imported.
C5_Witness ==
    /\ result.op = "onload"
    /\ ~cleaned
    /\ result.text = FileMixed
    /\ result.skippedCount = 1
    /\ result.importedCount = 2
    /\ NewEntry(parseCSVRow(RowOk9)) \in Range(entries)

\* The conditions on an import row: id, date and domainKey not empty, a score
\* that is there and is numeric, a domainKey that is a key of the catalog
RowMeetsConditions(r) ==
    /\ r.id.def /\ r.id.s # <<>>
    /\ r.date.def /\ r.date.s # <<>>
    /\ r.domainKey.def /\ r.domainKey.s # <<>>
    /\ r.score.def /\ r.score.s # <<>> /\ ~IsNaN(StrToNumber(r.score.s))
    /\ Len(r.domainKey.s) = 1 /\ r.domainKey.s[1] \in CatalogKeys

\* The rows of each file that meet the conditions
MeetingRowsOf ==
    [t \in FileTexts |-> {i \in NonBlankRows(t) : RowMeetsConditions(RowAt(t, i))}]

\* C6: an import adds a row to the collection only if the row's id, date and
\* domainKey are not empty, its score is there and numeric and its domainKey is
\* a key of the catalog: every entry an import adds is the entry of a row of the
\* file that meets these conditions, and the import adds no more entries than
\* there are such rows.
C6_ImportRowConditions ==
    [][OnLoadStep =>
          LET text == result'.text
          IN /\ \A e \in Range(entries') :
                   Count(entries', e) > Count(entries, e) =>
                      \E i \in MeetingRowsOf[text] : e = NewEntry(RowAt(text, i))
             /\ Len(entries') - Len(entries) <= Cardinality(MeetingRowsOf[text])]_vars

\* C6, its case: FileRejects, whose rows lack an id or a score, have a score
\* that is no number or a domainKey outside the catalog, was imported into an
\* empty collection; of its rows only those of id 9 and 7 were added.
C6_Witness ==
    /\ result.op = "onload"
    /\ ~cleaned
    /\ result.text = FileRejects
    /\ result.importedCount = 2
    /\ result.skippedCount = 7
    /\ Ids(entries) = {<<"9">>, <<"7">>}

\* The handlers that change the collection
Mutators == {"addEntry", "deleteEntry", "onload"}

\* C7: when the storage write throws during addEntry, deleteEntry or an import,
\* the operation aborts: the collection in memory is after it what it was before.
C7_StorageFailureAborts ==
    [][(result'.op \in Mutators /\ result'.saved = "failed") => entries' = entries]_vars

\* C8: in every state of the application, after failed writes and after
\* cleanup() too, no exception leaves addEntry, deleteEntry, exportToCSV or the
\* completion handler of an import: each returns a result.
C8_NoExceptionEscapes ==
    result.op \in {"addEntry", "deleteEntry", "exportToCSV", "onload"} => ~result.threw

\* C9: after each addEntry and each deleteEntry that returned true and after each
\* completed import, when the storage write succeeded, the collection stored
\* under the key holds exactly the entries of the collection in memory.
C9_StoredAfterMutation ==
    (/\ result.op \in Mutators
     /\ result.saved = "ok"
     /\ ~result.threw
     /\ result.op = "onload" \/ result.ret)
       => stored.kind = "array" /\ Range(stored.items) = Range(entries)

\* C10: in every interleaving of submits, deletes and imports, with reads that
\* complete in a later event than the one that started them and reads that
\* overlap, every step of the application either leaves the collection and the
\* stored value alone, or is one whole addEntry, one whole deleteEntry, one
\* whole import of a file whose read was pending, applied to the collection as
\* the event found it, or cleanup(); starting a read changes neither.
C10_MutationsWhole ==
    [][\/ entries' = entries /\ stored' = stored
       \/ /\ result'.op = "addEntry"
          /\ \E e \in Range(entries') :
                /\ e.id = NatToStr(now)
                /\ entries' = sortEntries(Append(entries, e), currentSort)
       \/ /\ result'.op = "deleteEntry"
          /\ \E id \in DeleteIds :
                entries' = sortEntries(SelectSeq(entries, LAMBDA e : e.id # id), currentSort)
       \/ /\ result'.op = "onload"
          /\ result'.text \in pending
          /\ pending' = pending \ {result'.text}
          /\ \/ /\ ~cleaned
                /\ LET imported == ImportText(entries, FALSE, result'.text).entries
                   IN /\ entries' = sortEntries(imported, currentSort)
                      /\ result'.saved = "ok" => stored' = Stringify(imported, FALSE)
             \/ cleaned /\ entries' = entries
       \/ result'.op = "cleanup" /\ cleaned' /\ stored' = stored]_vars

\* C10, its case: the read of FileMixed completed and added its two entries to
\* the entry a submit had added after the read was started, while the read of
\* FileRejects was still pending.
C10_Witness ==
    /\ result.op = "onload"
    /\ ~cleaned
    /\ result.text = FileMixed
    /\ result.importedCount = 2
    /\ pending = {FileRejects}
    /\ Ids(entries) = {<<"2">>, <<"1">>, <<"9">>}

----------------------------------------------------------------------------
(* A later session: the constructor loads what an earlier session stored, and *)
(* the collection is exported.                                                *)

\* Entries an earlier session can hold in memory: each passes validate (the
\* score Infinity is what the import of a row with that score leaves)
LoadedEntries(i) ==
    {[id |-> NatToStr(i), date |-> d, domainKey |-> Phq9, score |-> sc, note |-> n] :
        d \in {Date1, Date2}, sc \in {Num(5), Infinity},
        n \in {<<>>, <<"a">>, <<"a", Comma, DQuote>>}}

RECURSIVE LoadedCollections(_)
LoadedCollections(n) ==
    IF n = 0 THEN {<<>>}
    ELSE {Append(c, e) : c \in LoadedCollections(n - 1), e \in LoadedEntries(n)}

\* What an earlier session can have left under the key
StoredValues ==
    {NotStored, Stringify(<<>>, TRUE)}
    \cup {Stringify(c, FALSE) : c \in UNION {LoadedCollections(n) : n \in 1..MaxColl}}

\* The state after the constructor of a later session
LoadInit ==
    /\ stored \in StoredValues
    /\ entries = loadEntries(stored)
    /\ cleaned = FALSE
    /\ currentSort = [column |-> "date", direction |-> "desc"]
    /\ currentLanguage = "en"
    /\ now = 1
    /\ pending = {}
    /\ result = Idle
    /\ failures = 0
    /\ orig = <<>>
    /\ phase = "loaded"
    /\ AuxInit

\* The click handler of the export button, in the later session
LoadedExport ==
    /\ phase = "loaded"
    /\ result' = exportToCSV(App).result
    /\ phase' = "exported"
    /\ UNCHANGED aux
    /\ UNCHANGED <<entries, cleaned, stored, currentSort, currentLanguage, now, pending,
                   failures, orig>>

LoadNext == LoadedExport

LoadSpec == LoadInit /\ [][LoadNext]_vars

\* C11: for every non-empty collection, the text exportToCSV produces is the
\* byte-order mark, then the header row, then one data row for each entry of the
\* collection: as many rows as entries, and the row of every entry among them.
C11_ExportEveryEntry ==
    (phase = "exported" /\ entries # <<>>) =>
       /\ result.ret
       /\ Head(result.text) = BOM
       /\ LET lines == Split(Tail(result.text), NL)
          IN /\ Head(lines) = HeaderLine
             /\ Len(lines) = 1 + Len(entries)
             /\ \A i \in 1..Len(entries) : ExportRow(entries[i]) \in Range(Tail(lines))

----------------------------------------------------------------------------
(* escapeCSV on its own *)

MaxEscapeLen == 3   \* the longest note given to escapeCSV

\* The note he said "hi", ok and the field it is to give
HeSaidHi == <<"he said ", DQuote, "hi", DQuote, Comma, " ok">>
HeSaidHiField ==
    <<DQuote, "he said ", DQuote, DQuote, "hi", DQuote, DQuote, Comma, " ok", DQuote>>

\* The notes given to escapeCSV: every text of a few characters, among them the
\* empty one, the note of the example, and undefined
EscapeInputs == SeqsUpTo({"a", DQuote, Comma, SP}, MaxEscapeLen) \cup {HeSaidHi, Undefined}

EscapeInit ==
    /\ input \in EscapeInputs
    /\ phase = "start"
    /\ entries = <<>>
    /\ cleaned = FALSE
    /\ stored = NotStored
    /\ currentSort = [column |-> "date", direction |-> "desc"]
    /\ currentLanguage = "en"
    /\ now = 1
    /\ pending = {}
    /\ result = Idle
    /\ failures = 0
    /\ orig = <<>>
    /\ errors = <<>>
    /\ logged = 0
    /\ calls = <<>>
    /\ executed = <<>>
    /\ retry = NoRetry

\* this.escapeCSV(note)
EscapeNote ==
    /\ phase = "start"
    /\ result' = Report("escapeCSV", FALSE, FALSE, "none", "none", 0, 0, escapeCSV(input))
    /\ phase' = "escaped"
    /\ UNCHANGED <<entries, cleaned, stored, currentSort, currentLanguage, now, pending,
                   failures, orig, input, errors, logged, calls, executed, retry>>

EscapeNext == EscapeNote

EscapeSpec == EscapeInit /\ [][EscapeNext]_vars

\* How many double quotes the first j characters of a text hold
QuotesIn(s, j) == Cardinality({i \in 1..j : s[i] = DQuote})

\* C12: for every note, the empty and the undefined one too, the exported field
\* is the note between one pair of double quotes with every double quote of the
\* note doubled: each character of the note stands in the field, in order, moved
\* right by the quotes before it, a quote is followed by a second quote, and
\* nothing else is between the pair; the note he said "hi", ok gives
\* "he said ""hi"", ok" and the empty note gives "".
C12_NoteQuotedAndDoubled ==
    phase = "escaped" =>
       LET note == IF input = Undefined THEN <<>> ELSE input
           field == result.text
           inner == SubSeq(field, 2, Len(field) - 1)
       IN /\ Len(field) >= 2
          /\ Head(field) = DQuote
          /\ field[Len(field)] = DQuote
          /\ Len(inner) = Len(note) + QuotesIn(note, Len(note))
          /\ \A j \in 1..Len(note) :
                /\ inner[j + QuotesIn(note, j - 1)] = note[j]
                /\ note[j] = DQuote => inner[j + QuotesIn(note, j - 1) + 1] = DQuote
          /\ input = HeSaidHi => field = HeSaidHiField
          /\ input \in {<<>>, Undefined} => field = <<DQuote, DQuote>>

\* C12, its case: escapeCSV was given the note of the example and gave its field.
C12_Witness ==
    /\ phase = "escaped"
    /\ input = HeSaidHi
    /\ result.text = HeSaidHiField

----------------------------------------------------------------------------
(* ErrorHandler: the error log *)

maxErrors == 100

\* A faulty logError, which cuts the log to its first maxErrors records
logErrorKeepOldest(log, record) ==
    LET pushed == Append(log, record)
    IN IF Len(pushed) > maxErrors THEN SubSeq(pushed, 1, maxErrors) ELSE pushed

\* ErrorHandler.logError: the log after the record is pushed and the log cut to
\* its last maxErrors records
logError(log, record) ==
    LET pushed == Append(log, record)
    IN IF Len(pushed) > maxErrors
       THEN SubSeq(pushed, Len(pushed) - maxErrors + 1, Len(pushed))
       ELSE pushed

\* The records FormValidator.validate logs through logValidationError: one for
\* each rule that fails, in the order of the fields and of their rules; n is the
\* place of the record among all records logged
ValidationRecords(data, before) ==
    LET msgs == [i \in 1..Len(Fields) |->
                    [k \in 1..Len(FieldErrors(Fields[i], data)) |->
                        [field |-> Fields[i], rule |-> FieldErrors(Fields[i], data)[k]]]]
        flat == msgs[1] \o msgs[2] \o msgs[3] \o msgs[4] \o msgs[5]
    IN [k \in 1..Len(flat) |->
           [n |-> before + k, type |-> "Validation Error",
            field |-> flat[k].field, rule |-> flat[k].rule]]

RECURSIVE LogAll(_, _)
LogAll(log, records) ==
    IF records = <<>> THEN log ELSE LogAll(logError(log, Head(records)), Tail(records))

----------------------------------------------------------------------------
(* The entry validator on its own, and addEntry of any record *)

\* Notes at and over the limit of the note rule
NoteAtLimit == [i \in 1..NoteMaxLength |-> "a"]
NoteOverLimit == [i \in 1..(NoteMaxLength + 1) |-> "a"]

\* The records given to validate and to addEntry: each field right, wrong in the
\* ways the rules tell apart, or missing
Candidates ==
    {[id |-> id, date |-> d, domainKey |-> k, score |-> sc, note |-> n] :
        id \in {<<"3">>, <<>>},
        d \in {Date1, <<"not-a-date">>, <<>>},
        k \in {Phq9, <<"constructor">>, <<"unknown-domain">>, <<>>, Undefined},
        sc \in {Num(5), Num(30), Infinity, NaN, JsonNull},
        n \in {<<>>, <<"a">>, Undefined, NoteAtLimit, NoteOverLimit, <<"javascript:">>}}

\* The collection before: empty, or one entry, stored
ValidateInit ==
    /\ input \in Candidates
    /\ entries \in {<<>>, <<NewEntry(parseCSVRow(RowOk1))>>}
    /\ stored = Stringify(entries, FALSE)
    /\ cleaned = FALSE
    /\ currentSort = [column |-> "date", direction |-> "desc"]
    /\ currentLanguage = "en"
    /\ now = 1
    /\ pending = {}
    /\ result = Idle
    /\ failures = 0
    /\ orig = <<>>
    /\ phase = "start"
    /\ errors = <<>>
    /\ logged = 0
    /\ calls = <<>>
    /\ executed = <<>>
    /\ retry = NoRetry

\* this.entryValidator.validate(record): the result, and a record in the error
\* log for each rule that fails
ValidateEntry ==
    /\ phase = "start"
    /\ result' = [op |-> "validate", isValid |-> Validate(input).isValid,
                  errors |-> Validate(input).errors]
    /\ errors' = LogAll(errors, ValidationRecords(input, logged))
    /\ logged' = logged + Len(ValidationRecords(input, logged))
    /\ phase' = "validated"
    /\ UNCHANGED <<entries, cleaned, stored, currentSort, currentLanguage, now, pending,
                   failures, orig, input, calls, executed, retry>>

\* this.addEntry(record), called with any record; a write that throws is logged
\* by logStorageError
AddCandidate ==
    /\ phase = "start"
    /\ \E writeOk \in BOOLEAN :
          LET out == addEntry(input, App, writeOk)
              records == ValidationRecords(input, logged)
                         \o (IF out.result.saved = "failed"
                             THEN <<[n |-> logged + 1, type |-> "Storage Error",
                                     field |-> "save", rule |-> "save"]>>
                             ELSE <<>>)
          IN /\ entries' = out.entries
             /\ stored' = out.stored
             /\ result' = out.result
             /\ failures' = failures + Thrown(out.result)
             /\ errors' = LogAll(errors, records)
             /\ logged' = logged + Len(records)
    /\ phase' = "added"
    /\ UNCHANGED <<cleaned, currentSort, currentLanguage, now, pending, orig, input,
                   calls, executed, retry>>

ValidateNext ==
    \/ ValidateEntry
    \/ AddCandidate

ValidateSpec == ValidateInit /\ [][ValidateNext]_vars

\* A domainKey that is a key of the catalog
InCatalog(k) == Len(k) = 1 /\ k[1] \in CatalogKeys

\* C13: for every entry with a domainKey of the catalog, a well-formed date, a
\* numeric score and a note of at most 1000 characters, or no note at all (the
\* entry having its id and its note no unsafe content), validate returns
\* isValid = true and an empty errors map.
C13_ValidEntryAccepted ==
    (/\ phase = "validated"
     /\ input.id # <<>>
     /\ InCatalog(input.domainKey)
     /\ Len(input.date) = 1 /\ input.date[1] \in ValidDates
     /\ input.score.k \in {"int", "inf"}
     /\ \/ input.note = Undefined
        \/ Len(input.note) <= 1000 /\ input.note # <<"javascript:">>)
       => result.isValid /\ DOMAIN result.errors = {}

\* C14: for every entry whose domainKey is not a key of the catalog, validate
\* returns isValid = false and the errors map holds a non-empty list of messages
\* under domainKey.
C14_UnknownDomainRejected ==
    (phase = "validated" /\ ~InCatalog(input.domainKey)) =>
       /\ ~result.isValid
       /\ "domainKey" \in DOMAIN result.errors
       /\ result.errors["domainKey"] # <<>>

\* C14, its case: an entry whose domainKey is constructor, a property every
\* object inherits and no key of the catalog, was refused under domainKey.
C14_Witness ==
    /\ phase = "validated"
    /\ input.domainKey = <<"constructor">>
    /\ ~result.isValid
    /\ result.errors["domainKey"] = <<"Invalid assessment type">>

\* C16: a validation that fails changes nothing but the error log: validate
\* leaves the record it is given, the collection and the stored collection as
\* they are, and addEntry of an entry that fails validation returns false and
\* leaves the record, the collection in memory and the stored collection exactly
\* as they were.
C16_FailedValidationChangesNothing ==
    [][/\ phase' = "validated" =>
             input' = input /\ entries' = entries /\ stored' = stored
       /\ (phase' = "added" /\ ~Validate(input).isValid) =>
             /\ result'.ret = FALSE
             /\ ~result'.threw
             /\ input' = input
             /\ entries' = entries
             /\ stored' = stored]_vars

\* C16, its case: addEntry was given an entry that fails validation while the
\* collection held a stored entry; it returned false, and the log has the
\* failure.
C16_Witness ==
    /\ phase = "added"
    /\ ~Validate(input).isValid
    /\ result.ret = FALSE
    /\ entries = <<NewEntry(parseCSVRow(RowOk1))>>
    /\ stored = Stringify(entries, FALSE)
    /\ errors # <<>>

----------------------------------------------------------------------------
(* FormValidator.validate with any rules *)

\* What the predicate of a rule does with the value: it returns true, returns
\* false, throws an Error, or throws null (a value without properties)
Outcomes == {"pass", "fail", "throwError", "throwNull"}

GenericMessage == "Validation error occurred"

\* The messages of the rules registered with addRule for the fields a and b
RuleMessages == [a |-> <<"m1", "m2">>, b |-> <<"m3">>]

\* Every rule, in the order validate runs them: the field and the place in it
RuleOrder == <<[field |-> "a", k |-> 1], [field |-> "a", k |-> 2], [field |-> "b", k |-> 1]>>

\* The loops of FormValidator.validate from rule i of RuleOrder on.  acc holds
\* isValid, the fieldErrors of each field, the rules run and the records logged.
\* The catch block reads error.message for the record it logs when there is an
\* errorHandler: of null that read throws, out of the catch block and of validate.
RECURSIVE RunRules(_, _, _, _)
RunRules(outcomes, hasHandler, i, acc) ==
    IF i > Len(RuleOrder) THEN acc
    ELSE LET r == RuleOrder[i]
             o == outcomes[i]
             ran == [acc EXCEPT !.evaluated = Append(@, i)]
         IN CASE o = "pass" -> RunRules(outcomes, hasHandler, i + 1, ran)
              [] o = "fail" ->
                    RunRules(outcomes, hasHandler, i + 1,
                             [ran EXCEPT !.isValid = FALSE,
                                         !.fieldErrors[r.field] =
                                             Append(@, RuleMessages[r.field][r.k]),
                                         !.records =
                                             IF hasHandler
                                             THEN Append(@, [type |-> "Validation Error", rule |-> i])
                                             ELSE @])
              [] o = "throwNull" /\ hasHandler ->
                    [ran EXCEPT !.isValid = FALSE, !.threw = TRUE,
                                !.fieldErrors[r.field] = Append(@, GenericMessage)]
              [] OTHER ->
                    RunRules(outcomes, hasHandler, i + 1,
                             [ran EXCEPT !.isValid = FALSE,
                                         !.fieldErrors[r.field] = Append(@, GenericMessage),
                                         !.records =
                                             IF hasHandler
                                             THEN Append(@, [type |-> "Validator Error", rule |-> i])
                                             ELSE @])

\* FormValidator.validate(data): errors holds the fields with messages only
ValidateRules(outcomes, hasHandler) ==
    LET acc == RunRules(outcomes, hasHandler, 1,
                        [isValid |-> TRUE, threw |-> FALSE, evaluated |-> <<>>,
                         records |-> <<>>, fieldErrors |-> [a |-> <<>>, b |-> <<>>]])
        reported == {f \in {"a", "b"} : acc.fieldErrors[f] # <<>>}
    IN [op |-> "validate", threw |-> acc.threw, isValid |-> acc.isValid,
        errors |-> [f \in reported |-> acc.fieldErrors[f]],
        evaluated |-> acc.evaluated, records |-> acc.records]

RulesInit ==
    /\ input \in [outcomes : [1..Len(RuleOrder) -> Outcomes], hasHandler : BOOLEAN]
    /\ phase = "start"
    /\ entries = <<>>
    /\ cleaned = FALSE
    /\ stored = NotStored
    /\ currentSort = [column |-> "date", direction |-> "desc"]
    /\ currentLanguage = "en"
    /\ now = 1
    /\ pending = {}
    /\ result = Idle
    /\ failures = 0
    /\ orig = <<>>
    /\ errors = <<>>
    /\ logged = 0
    /\ calls = <<>>
    /\ executed = <<>>
    /\ retry = NoRetry

\* validator.validate(data), with the records it logs
RunValidate ==
    /\ phase = "start"
    /\ LET out == ValidateRules(input.outcomes, input.hasHandler)
           records == [k \in 1..Len(out.records) |->
                          [n |-> logged + k, type |-> out.records[k].type,
                           field |-> RuleOrder[out.records[k].rule].field,
                           rule |-> RuleMessages[RuleOrder[out.records[k].rule].field]
                                                [RuleOrder[out.records[k].rule].k]]]
       IN /\ result' = out
          /\ errors' = LogAll(errors, records)
          /\ logged' = logged + Len(records)
    /\ phase' = "validated"
    /\ UNCHANGED <<entries, cleaned, stored, currentSort, currentLanguage, now, pending,
                   failures, orig, input, calls, executed, retry>>

RulesNext == RunValidate

RulesSpec == RulesInit /\ [][RulesNext]_vars

\* The messages a field is to report: of each of its rules that does not pass,
\* its own message when it fails and the generic one when it throws
ExpectedMessages(f) ==
    LET msg(i) == IF input.outcomes[i] = "fail"
                  THEN RuleMessages[f][RuleOrder[i].k] ELSE GenericMessage
        part(i) == IF RuleOrder[i].field = f /\ input.outcomes[i] # "pass"
                   THEN <<msg(i)>> ELSE <<>>
    IN part(1) \o part(2) \o part(3)

\* C15: a rule predicate that throws is turned into one generic message for that
\* rule and makes isValid false; every other rule of the field and every rule of
\* every other field is still run and reported; validate itself does not throw.
C15_ThrowingRuleIsolated ==
    phase = "validated" =>
       /\ ~result.threw
       /\ result.evaluated = <<1, 2, 3>>
       /\ result.isValid = (\A i \in 1..Len(RuleOrder) : input.outcomes[i] = "pass")
       /\ \A f \in {"a", "b"} :
             IF ExpectedMessages(f) = <<>> THEN f \notin DOMAIN result.errors
             ELSE f \in DOMAIN result.errors /\ result.errors[f] = ExpectedMessages(f)

----------------------------------------------------------------------------
(* SecurityManager.createRateLimiter *)

MaxCalls == 2       \* the largest maxCalls of a limiter
MaxWindow == 2      \* the longest timeWindow of a limiter
MaxRateClock == 6   \* the clock of the limiter stops at this value

\* while (calls.length > 0 && calls[0] < now - timeWindow) calls.shift()
RECURSIVE Evict(_, _, _)
Evict(cs, t, timeWindow) ==
    IF cs # <<>> /\ Head(cs) < t - timeWindow THEN Evict(Tail(cs), t, timeWindow) ELSE cs

\* A faulty test of the limit, which lets one call more through
OverLimit(cs, maxCalls) == Len(cs) > maxCalls

\* calls.length >= maxCalls
AtLimit(cs, maxCalls) == Len(cs) >= maxCalls

\* The function createRateLimiter returns, called at time t: the calls array
\* after it, and whether it threw 'Rate limit exceeded' instead of calling fn
limiter(cs, t, maxCalls, timeWindow) ==
    LET kept == Evict(cs, t, timeWindow)
    IN IF AtLimit(kept, maxCalls)
       THEN [calls |-> kept, threw |-> TRUE]
       ELSE [calls |-> Append(kept, t), threw |-> FALSE]

\* createRateLimiter(maxCalls, timeWindow): a closure with an empty calls array
RateInit ==
    /\ input \in [maxCalls : 1..MaxCalls, timeWindow : 1..MaxWindow]
    /\ now = 1
    /\ calls = <<>>
    /\ executed = <<>>
    /\ result = [op |-> "none", threw |-> FALSE, refused |-> FALSE]
    /\ phase = "limiter"
    /\ entries = <<>>
    /\ cleaned = FALSE
    /\ stored = NotStored
    /\ currentSort = [column |-> "date", direction |-> "desc"]
    /\ currentLanguage = "en"
    /\ pending = {}
    /\ failures = 0
    /\ orig = <<>>
    /\ errors = <<>>
    /\ logged = 0
    /\ retry = NoRetry

\* Time passes between two calls
RateTick ==
    /\ now < MaxRateClock
    /\ now' = now + 1
    /\ UNCHANGED <<entries, cleaned, stored, currentSort, currentLanguage, pending, result,
                   failures, orig, phase, input, errors, logged, calls, executed, retry>>

\* A call of the limited function; refused records that some call has thrown
LimitedCall ==
    /\ LET out == limiter(calls, now, input.maxCalls, input.timeWindow)
       IN /\ calls' = out.calls
          /\ executed' = IF out.threw THEN executed ELSE Append(executed, now)
          /\ result' = [op |-> "limiter", threw |-> out.threw,
                        refused |-> result.refused \/ out.threw]
    /\ UNCHANGED <<entries, cleaned, stored, currentSort, currentLanguage, now, pending,
                   failures, orig, phase, input, errors, logged, retry>>

RateNext ==
    \/ RateTick
    \/ LimitedCall

RateSpec == RateInit /\ [][RateNext]_vars

\* The executions of fn at the times from a to b
ExecutedIn(a, b) == {i \in 1..Len(executed) : a <= executed[i] /\ executed[i] <= b}

\* A step that is a call of the limited function
LimitedCallStep == result'.op = "limiter" /\ now' = now

\* At most maxCalls executions of fn in any stretch of time of length timeWindow
AtMostMaxCallsPerWindow ==
    \A t \in 1..MaxRateClock :
       Cardinality({i \in 1..Len(executed') :
                       t <= executed'[i] /\ executed'[i] <= t + input.timeWindow})
          <= input.maxCalls

\* After maxCalls executions less than timeWindow ago, the call throws and fn is
\* not executed
RefusedWithinWindow ==
    Cardinality(ExecutedIn(now - input.timeWindow + 1, now)) >= input.maxCalls
       => result'.threw /\ executed' = executed

\* C17 as stated: after N accepted calls within one window the next call within
\* it throws and does not execute fn; a call made once the window has elapsed
\* since the earlier calls (timeWindow or more after each of them) is accepted;
\* fn is executed at most N times in any window of length timeWindow.
C17_RateLimitAsStated ==
    [][LimitedCallStep =>
          /\ RefusedWithinWindow
          /\ (\A i \in 1..Len(executed) : now - executed[i] >= input.timeWindow)
                => ~result'.threw /\ executed' = Append(executed, now)
          /\ AtMostMaxCallsPerWindow]_vars

\* C17, amended: as stated, but a call is accepted again once more than
\* timeWindow has elapsed since the earlier calls; a call made exactly
\* timeWindow after maxCalls calls is still refused.
C17_RateLimit ==
    [][LimitedCallStep =>
          /\ RefusedWithinWindow
          /\ (\A i \in 1..Len(executed) : now - executed[i] > input.timeWindow)
                => ~result'.threw /\ executed' = Append(executed, now)
          /\ (Cardinality(ExecutedIn(now - input.timeWindow, now)) >= input.maxCalls)
                => result'.threw /\ executed' = executed
          /\ AtMostMaxCallsPerWindow]_vars

\* C17, its case: a limiter that has refused a call accepts one again, all the
\* earlier calls, as many as maxCalls and more, being out of the window.
C17_Witness ==
    /\ result.op = "limiter"
    /\ result.refused
    /\ ~result.threw
    /\ calls = <<now>>
    /\ Len(executed) > input.maxCalls

----------------------------------------------------------------------------
(* RetryHandler.withRetry *)

MaxRetries == 3     \* the largest maxRetries of a call of withRetry
MaxDelay == 2       \* the longest delay of a call of withRetry
MaxRetryClock == 7  \* the clock of withRetry stops at this value

\* lastError before any failure: the undefined value; the failure thrown by the
\* k-th invocation of the operation is the value k
NoError == 0

\* A faulty test of the last attempt, which gives up one attempt early
IsAttemptBeforeLast(attempt, maxRetries) == attempt + 1 = maxRetries

\* attempt === maxRetries
IsLastAttempt(attempt, maxRetries) == attempt = maxRetries

\* A faulty wait, which is the same after every failure
waitTimeFixed(delay, attempt) == delay

\* delay * Math.pow(2, attempt - 1)
waitTime(delay, attempt) == delay * 2^(attempt - 1)

\* A call withRetry(operation, maxRetries, delay) that has just entered its loop
RetryInit ==
    /\ retry \in [state : {"running"}, maxRetries : 0..MaxRetries, delay : 1..MaxDelay,
                  attempt : {1}, lastError : {NoError}, invocations : {<<>>},
                  waits : {<<>>}, due : {0}, settled : {NoError}]
    /\ now = 1
    /\ phase = "retry"
    /\ result = Idle
    /\ entries = <<>>
    /\ cleaned = FALSE
    /\ stored = NotStored
    /\ currentSort = [column |-> "date", direction |-> "desc"]
    /\ currentLanguage = "en"
    /\ pending = {}
    /\ failures = 0
    /\ orig = <<>>
    /\ input = <<>>
    /\ errors = <<>>
    /\ logged = 0
    /\ calls = <<>>
    /\ executed = <<>>

RetryUnchanged ==
    UNCHANGED <<entries, cleaned, stored, currentSort, currentLanguage, pending, result,
                failures, orig, phase, input, errors, logged, calls, executed>>

\* Time passes while withRetry awaits
RetryTick ==
    /\ now < MaxRetryClock
    /\ now' = now + 1
    /\ UNCHANGED retry
    /\ RetryUnchanged

\* return await operation(): the operation fulfils and withRetry resolves with
\* its value (the value of the k-th invocation is k)
AttemptSucceeds ==
    /\ retry.state = "running"
    /\ retry.attempt <= retry.maxRetries
    /\ retry' = [retry EXCEPT
                    !.state = "resolved",
                    !.invocations = Append(@, [at |-> now, ok |-> TRUE, value |-> retry.attempt]),
                    !.settled = retry.attempt]
    /\ UNCHANGED now
    /\ RetryUnchanged

\* The operation rejects: the catch block keeps the error, throws it at the
\* last attempt and otherwise sets the timer of the backoff
AttemptFails ==
    /\ retry.state = "running"
    /\ retry.attempt <= retry.maxRetries
    /\ LET error == retry.attempt
           invoked == Append(retry.invocations, [at |-> now, ok |-> FALSE, value |-> error])
       IN retry' = IF IsLastAttempt(retry.attempt, retry.maxRetries)
                   THEN [retry EXCEPT !.state = "rejected", !.invocations = invoked,
                                      !.lastError = error, !.settled = error]
                   ELSE [retry EXCEPT !.state = "waiting", !.invocations = invoked,
                                      !.lastError = error,
                                      !.waits = Append(@, waitTime(retry.delay, retry.attempt)),
                                      !.due = now + waitTime(retry.delay, retry.attempt)]
    /\ UNCHANGED now
    /\ RetryUnchanged

\* The timer of the backoff fires, not before it is due: attempt++
BackoffEnds ==
    /\ retry.state = "waiting"
    /\ now >= retry.due
    /\ retry' = [retry EXCEPT !.state = "running", !.attempt = @ + 1]
    /\ UNCHANGED now
    /\ RetryUnchanged

\* The loop ends without a return or a throw: throw lastError
LoopExhausted ==
    /\ retry.state = "running"
    /\ retry.attempt > retry.maxRetries
    /\ retry' = [retry EXCEPT !.state = "rejected", !.settled = retry.lastError]
    /\ UNCHANGED now
    /\ RetryUnchanged

RetryNext ==
    \/ RetryTick
    \/ AttemptSucceeds
    \/ AttemptFails
    \/ BackoffEnds
    \/ LoopExhausted

RetrySpec == RetryInit /\ [][RetryNext]_vars

\* Every invocation of the operation so far has failed
AlwaysFailed == \A k \in 1..Len(retry.invocations) : ~retry.invocations[k].ok

\* C18: withRetry over an operation that always fails never invokes it more than
\* maxRetries times, and when it rejects it has invoked it exactly maxRetries
\* times and rejects with the failure of the last invocation (with the undefined
\* lastError when maxRetries is 0 and nothing was invoked).
C18_FailingOperationInvokedNTimes ==
    AlwaysFailed =>
       /\ Len(retry.invocations) <= retry.maxRetries
       /\ retry.state # "resolved"
       /\ retry.state = "rejected" =>
             /\ Len(retry.invocations) = retry.maxRetries
             /\ retry.settled = IF retry.maxRetries = 0 THEN NoError
                                ELSE retry.invocations[retry.maxRetries].value

\* C18, its case: withRetry with maxRetries = 3 has rejected after three failures
C18_Witness ==
    /\ retry.state = "rejected"
    /\ retry.maxRetries = 3
    /\ Len(retry.invocations) = 3
    /\ retry.settled = 3

\* C19: attempt k + 1 starts no sooner than delay * 2^(k-1) after the failure of
\* attempt k, and that is the wait that was set; an attempt that succeeds is the
\* last invocation and withRetry resolves with its value; there are no more waits
\* than failed attempts before the last, so none after the final failure.
C19_BackoffAndSuccess ==
    LET inv == retry.invocations
    IN /\ \A k \in 1..Len(retry.waits) : retry.waits[k] = retry.delay * 2^(k - 1)
       /\ \A k \in 1..(Len(inv) - 1) :
             /\ ~inv[k].ok
             /\ inv[k + 1].at >= inv[k].at + retry.delay * 2^(k - 1)
       /\ retry.state = "waiting" => Len(retry.waits) = Len(inv) /\ Len(inv) < retry.maxRetries
       /\ retry.state = "running" => Len(retry.waits) = Len(inv)
       /\ \A k \in 1..Len(inv) :
             inv[k].ok => /\ k = Len(inv)
                          /\ retry.state = "resolved"
                          /\ retry.settled = inv[k].value
                          /\ Len(retry.waits) = k - 1
       /\ (retry.state = "rejected" /\ retry.maxRetries > 0) =>
             /\ Len(inv) = retry.maxRetries
             /\ Len(retry.waits) = retry.maxRetries - 1

\* C19, its case: two failures, each followed by its wait, then a success
C19_Witness ==
    /\ retry.state = "resolved"
    /\ Len(retry.invocations) = 3
    /\ retry.waits = <<retry.delay, 2 * retry.delay>>
    /\ retry.delay = 2

----------------------------------------------------------------------------
(* ErrorHandler: logError and its helpers *)

MaxLogged == 102      \* no more records than this are logged
MaxHelperCalls == 1   \* no more calls than this go through the helpers

\* The record logError builds; n is its place among all records logged
ErrorRecord(type, n) == [n |-> n, type |-> type]

\* new ErrorHandler(): an empty log
LogInit ==
    /\ errors = <<>>
    /\ logged = 0
    /\ input = [helperCalls |-> 0]
    /\ result = [op |-> "none", threw |-> FALSE]
    /\ phase = "log"
    /\ now = 0
    /\ entries = <<>>
    /\ cleaned = FALSE
    /\ stored = NotStored
    /\ currentSort = [column |-> "date", direction |-> "desc"]
    /\ currentLanguage = "en"
    /\ pending = {}
    /\ failures = 0
    /\ orig = <<>>
    /\ calls = <<>>
    /\ executed = <<>>
    /\ retry = NoRetry

LogUnchanged ==
    UNCHANGED <<entries, cleaned, stored, currentSort, currentLanguage, now, pending,
                failures, orig, phase, calls, executed, retry>>

\* A call of logError(type, details) that pushes its record
Logs(op, type) ==
    /\ logged < MaxLogged
    /\ errors' = logError(errors, ErrorRecord(type, logged + 1))
    /\ logged' = logged + 1
    /\ result' = [op |-> op, threw |-> FALSE]

\* A helper that reads error.message before it calls logError: with the error
\* null or undefined it throws a TypeError and logs nothing
HelperWithError(op, type) ==
    /\ input.helperCalls < MaxHelperCalls
    /\ input' = [helperCalls |-> input.helperCalls + 1]
    /\ \E isObject \in BOOLEAN :
          IF isObject
          THEN Logs(op, type)
          ELSE /\ result' = [op |-> op, threw |-> TRUE]
               /\ UNCHANGED <<errors, logged>>
    /\ LogUnchanged

\* logError called directly
LogError ==
    /\ Logs("logError", "JavaScript Error")
    /\ UNCHANGED input
    /\ LogUnchanged

LogStorageError == HelperWithError("logStorageError", "Storage Error")

\* logValidationError reads no property of its arguments
LogValidationError ==
    /\ input.helperCalls < MaxHelperCalls
    /\ input' = [helperCalls |-> input.helperCalls + 1]
    /\ Logs("logValidationError", "Validation Error")
    /\ LogUnchanged

LogNetworkError == HelperWithError("logNetworkError", "Network Error")

LogRenderError == HelperWithError("logRenderError", "Render Error")

LogNext ==
    \/ LogError
    \/ LogStorageError
    \/ LogValidationError
    \/ LogNetworkError
    \/ LogRenderError

LogSpec == LogInit /\ [][LogNext]_vars

\* C20: the error log holds no more than 100 records, and they are the records
\* logged last, as many as fit, in the order they were logged.
C20_LogKeepsMostRecent ==
    /\ Len(errors) <= 100
    /\ Len(errors) = IF logged <= 100 THEN logged ELSE 100
    /\ \A i \in 1..Len(errors) : errors[i].n = logged - Len(errors) + i

\* C20, its case: more records logged than the log holds, one through a helper
C20_Witness ==
    /\ logged > 100
    /\ Len(errors) = 100
    /\ errors[1].n = logged - 99
    /\ \E i \in 1..Len(errors) : errors[i].type # "JavaScript Error"

----------------------------------------------------------------------------
(* SecureStorage: the wrapper of localStorage *)

\* In this part a string is the sequence of its UTF-16 code units, and a value
\* handed to setItem or returned by getItem is a record tagged with its type.
JStr(codes) == [t |-> "string", s |-> codes, n |-> 0]
JNum(n) == [t |-> "number", s |-> <<>>, n |-> n]
JNull == [t |-> "null", s |-> <<>>, n |-> 0]
JTrue == [t |-> "boolean", s |-> <<>>, n |-> 1]
\* the object {a: n}
JObjA(n) == [t |-> "object", s |-> <<>>, n |-> n]

TxtNull == <<110, 117, 108, 108>>                  \* null
TxtTrue == <<116, 114, 117, 101>>                  \* true
TxtFalse == <<102, 97, 108, 115, 101>>             \* false
TxtObjAOpen == <<123, 34, 97, 34, 58>>             \* {"a":
TxtAbc == <<97, 98, 99>>                           \* abc
Txt123 == <<49, 50, 51>>                           \* 123
TxtObjA1 == <<123, 34, 97, 34, 58, 49, 125>>       \* {"a":1}
TxtSalam == <<1587, 1604, 1575, 1605>>             \* the Persian word salam
TxtStorageTest == <<95, 95, 116, 95, 95>>          \* the key of the probe

\* The decimal digits of a natural number, as code units
RECURSIVE NatToCodes(_)
NatToCodes(n) == IF n < 10 THEN <<48 + n>> ELSE NatToCodes(n \div 10) \o <<48 + (n % 10)>>

RECURSIVE CodesToNat(_)
CodesToNat(c) ==
    IF c = <<>> THEN 0 ELSE 10 * CodesToNat(SubSeq(c, 1, Len(c) - 1)) + (c[Len(c)] - 48)

\* JSON.stringify of a value that is not a string on its own
JSONstringify(v) ==
    CASE v.t = "number" -> NatToCodes(v.n)
      [] v.t = "null" -> TxtNull
      [] v.t = "boolean" -> IF v.n = 1 THEN TxtTrue ELSE TxtFalse
      [] v.t = "object" -> TxtObjAOpen \o NatToCodes(v.n) \o <<125>>
      [] v.t = "string" -> <<34>> \o v.s \o <<34>>

\* The text of a JSON number without sign, fraction or exponent
IsJsonNat(c) ==
    /\ c # <<>>
    /\ \A i \in 1..Len(c) : 48 <= c[i] /\ c[i] <= 57
    /\ (Len(c) > 1 => c[1] # 48)

\* JSON.parse, for the grammar of numbers, literals, strings without escapes
\* and objects of one member a: whether it returns, and what
JSONparse(c) ==
    CASE IsJsonNat(c) -> [ok |-> TRUE, value |-> JNum(CodesToNat(c))]
      [] c = TxtNull -> [ok |-> TRUE, value |-> JNull]
      [] c = TxtTrue -> [ok |-> TRUE, value |-> JTrue]
      [] c = TxtFalse -> [ok |-> TRUE, value |-> [JTrue EXCEPT !.n = 0]]
      [] /\ Len(c) >= 2
         /\ c[1] = 34
         /\ c[Len(c)] = 34
         /\ \A i \in 2..(Len(c) - 1) : c[i] # 34 /\ c[i] # 92 /\ c[i] >= 32
           -> [ok |-> TRUE, value |-> JStr(SubSeq(c, 2, Len(c) - 1))]
      [] /\ Len(c) > Len(TxtObjAOpen) + 1
         /\ SubSeq(c, 1, Len(TxtObjAOpen)) = TxtObjAOpen
         /\ c[Len(c)] = 125
         /\ IsJsonNat(SubSeq(c, Len(TxtObjAOpen) + 1, Len(c) - 1))
           -> [ok |-> TRUE,
               value |-> JObjA(CodesToNat(SubSeq(c, Len(TxtObjAOpen) + 1, Len(c) - 1)))]
      [] OTHER -> [ok |-> FALSE, value |-> JNull]

\* a ^ b on code units
RECURSIVE BitXor(_, _)
BitXor(a, b) ==
    IF a = 0 /\ b = 0 THEN 0
    ELSE (((a % 2) + (b % 2)) % 2) + 2 * BitXor(a \div 2, b \div 2)

\* The key of encrypt and decrypt: 'default'
XorKey == <<100, 101, 102, 97, 117, 108, 116>>

\* data.charCodeAt(i) ^ key.charCodeAt(i % key.length), for every i
XorWithKey(c) == [i \in 1..Len(c) |-> BitXor(c[i], XorKey[((i - 1) % Len(XorKey)) + 1])]

\* The code unit of the i-th character of the base64 alphabet
B64Char(i) ==
    IF i < 26 THEN 65 + i
    ELSE IF i < 52 THEN 97 + (i - 26)
    ELSE IF i < 62 THEN 48 + (i - 52)
    ELSE IF i = 62 THEN 43 ELSE 47

IsB64Char(c) ==
    \/ 65 <= c /\ c <= 90
    \/ 97 <= c /\ c <= 122
    \/ 48 <= c /\ c <= 57
    \/ c = 43
    \/ c = 47

\* The place in the base64 alphabet of the character with code unit c
B64Index(c) ==
    IF 65 <= c /\ c <= 90 THEN c - 65
    ELSE IF 97 <= c /\ c <= 122 THEN c - 97 + 26
    ELSE IF 48 <= c /\ c <= 57 THEN c - 48 + 52
    ELSE IF c = 43 THEN 62 ELSE 63

\* btoa throws for a string with a code unit above 255
BtoaThrows(c) == \E i \in 1..Len(c) : c[i] > 255

\* btoa of a string of code units up to 255
RECURSIVE Btoa(_)
Btoa(c) ==
    IF c = <<>> THEN <<>>
    ELSE IF Len(c) = 1
    THEN LET n == c[1] * 65536
         IN <<B64Char(n \div 262144), B64Char((n \div 4096) % 64), 61, 61>>
    ELSE IF Len(c) = 2
    THEN LET n == c[1] * 65536 + c[2] * 256
         IN <<B64Char(n \div 262144), B64Char((n \div 4096) % 64),
              B64Char((n \div 64) % 64), 61>>
    ELSE LET n == c[1] * 65536 + c[2] * 256 + c[3]
         IN <<B64Char(n \div 262144), B64Char((n \div 4096) % 64),
              B64Char((n \div 64) % 64), B64Char(n % 64)>> \o Btoa(SubSeq(c, 4, Len(c)))

\* atob first drops the padding of a text whose length is a multiple of 4
Unpadded(c) ==
    IF Len(c) % 4 = 0 /\ Len(c) >= 2 /\ c[Len(c)] = 61
    THEN IF c[Len(c) - 1] = 61 THEN SubSeq(c, 1, Len(c) - 2) ELSE SubSeq(c, 1, Len(c) - 1)
    ELSE c

\* atob throws for a length of 1 modulo 4 and for a character outside the alphabet
AtobThrows(c) ==
    LET u == Unpadded(c)
    IN Len(u) % 4 = 1 \/ \E i \in 1..Len(u) : ~IsB64Char(u[i])

RECURSIVE AtobGroups(_)
AtobGroups(u) ==
    IF Len(u) < 2 THEN <<>>
    ELSE IF Len(u) = 2
    THEN LET n == B64Index(u[1]) * 262144 + B64Index(u[2]) * 4096
         IN <<n \div 65536>>
    ELSE IF Len(u) = 3
    THEN LET n == B64Index(u[1]) * 262144 + B64Index(u[2]) * 4096 + B64Index(u[3]) * 64
         IN <<n \div 65536, (n \div 256) % 256>>
    ELSE LET n == B64Index(u[1]) * 262144 + B64Index(u[2]) * 4096
                     + B64Index(u[3]) * 64 + B64Index(u[4])
         IN <<n \div 65536, (n \div 256) % 256, n % 256>> \o AtobGroups(SubSeq(u, 5, Len(u)))

Atob(c) == AtobGroups(Unpadded(c))

\* The text encrypt works on: a string as it is, another value stringified
TextOf(v) == IF v.t = "string" THEN v.s ELSE JSONstringify(v)

\* SecureStorage.encrypt throws when btoa does
EncryptThrows(v) == BtoaThrows(XorWithKey(TextOf(v)))

EncryptValue(v) == Btoa(XorWithKey(TextOf(v)))

\* SecureStorage.decrypt: null when atob throws
DecryptText(c) ==
    IF AtobThrows(c) THEN [ok |-> FALSE, text |-> <<>>]
    ELSE [ok |-> TRUE, text |-> XorWithKey(Atob(c))]

\* localStorage is a function from its keys to their values
StorePut(store, k, v) == [x \in (DOMAIN store) \cup {k} |-> IF x = k THEN v ELSE store[x]]

StoreRemove(store, ks) == [x \in (DOMAIN store) \ ks |-> store[x]]

\* key.startsWith(prefix)
StartsWith(k, prefix) == Len(k) >= Len(prefix) /\ SubSeq(k, 1, Len(prefix)) = prefix

\* checkAvailability: whether the write and the delete of the probe went through
checkAvailability(probeOk) == probeOk

\* SecureStorage.setItem; lsOk tells whether localStorage.setItem returns
setItem(adapter, store, key, value, encrypt, lsOk) ==
    IF ~adapter.isAvailable THEN [store |-> store, ret |-> FALSE, threw |-> TRUE]
    ELSE IF encrypt /\ EncryptThrows(value) THEN [store |-> store, ret |-> FALSE, threw |-> TRUE]
    ELSE LET dataToStore == IF encrypt THEN EncryptValue(value) ELSE TextOf(value)
         IN IF lsOk
            THEN [store |-> StorePut(store, adapter.keyPrefix \o key, dataToStore),
                  ret |-> TRUE, threw |-> FALSE]
            ELSE [store |-> store, ret |-> FALSE, threw |-> FALSE]

\* JSON.parse(text) in a try whose catch returns the text
ParsedOrText(text) ==
    LET parsed == JSONparse(text) IN IF parsed.ok THEN parsed.value ELSE JStr(text)

\* SecureStorage.getItem; lsOk tells whether localStorage.getItem returns
getItem(adapter, store, key, decrypt, lsOk) ==
    LET fullKey == adapter.keyPrefix \o key
    IN IF ~adapter.isAvailable \/ ~lsOk \/ fullKey \notin DOMAIN store THEN JNull
       ELSE IF decrypt
       THEN LET decrypted == DecryptText(store[fullKey])
            IN IF decrypted.ok THEN ParsedOrText(decrypted.text) ELSE JNull
       ELSE ParsedOrText(store[fullKey])

\* SecureStorage.removeItem
removeItem(adapter, store, key, lsOk) ==
    IF adapter.isAvailable /\ lsOk
    THEN [store |-> StoreRemove(store, {adapter.keyPrefix \o key}), ret |-> TRUE]
    ELSE [store |-> store, ret |-> FALSE]

\* The keys clear collects: if (key && key.startsWith(this.keyPrefix))
keysToRemove(adapter, store) ==
    {k \in DOMAIN store : k # <<>> /\ StartsWith(k, adapter.keyPrefix)}

\* SecureStorage.clear
clear(adapter, store, lsOk) ==
    IF adapter.isAvailable /\ lsOk
    THEN [store |-> StoreRemove(store, keysToRemove(adapter, store)), ret |-> TRUE]
    ELSE [store |-> store, ret |-> FALSE]

PrefixQ == <<113, 95>>       \* q_
KeyK == <<107>>              \* k
KeyOther == <<111>>          \* o

StoragePrefixes == {PrefixQ, <<>>}
StorageKeys == {KeyK, <<>>}
StorageValues ==
    {JStr(TxtAbc), JStr(Txt123), JStr(TxtSalam), JNull, JObjA(1)}

\* What other code has left in localStorage before the adapter is built
InitialStores ==
    {[x \in ks |-> TxtAbc] : ks \in SUBSET {KeyOther, <<>>}}

StorageResult(op, key, value, flag, ret, got, threw) ==
    [op |-> op, key |-> key, value |-> value, flag |-> flag, ret |-> ret, got |-> got,
     threw |-> threw]

\* new SecureStorage(keyPrefix)
StorageInit ==
    /\ stored \in InitialStores
    /\ \E prefix \in StoragePrefixes, probeOk \in BOOLEAN :
          input = [keyPrefix |-> prefix, isAvailable |-> checkAvailability(probeOk)]
    /\ result = StorageResult("none", <<>>, JNull, FALSE, FALSE, JNull, FALSE)
    /\ phase = "storage"
    /\ now = 0
    /\ entries = <<>>
    /\ cleaned = FALSE
    /\ currentSort = [column |-> "date", direction |-> "desc"]
    /\ currentLanguage = "en"
    /\ pending = {}
    /\ failures = 0
    /\ orig = <<>>
    /\ errors = <<>>
    /\ logged = 0
    /\ calls = <<>>
    /\ executed = <<>>
    /\ retry = NoRetry

StorageUnchanged ==
    UNCHANGED <<entries, cleaned, currentSort, currentLanguage, now, pending, failures, orig,
                phase, input, errors, logged, calls, executed, retry>>

SetItem ==
    /\ \E key \in StorageKeys, value \in StorageValues, encrypt \in BOOLEAN, lsOk \in BOOLEAN :
          LET out == setItem(input, stored, key, value, encrypt, lsOk)
          IN /\ stored' = out.store
             /\ result' = StorageResult("setItem", key, value, encrypt, out.ret, JNull, out.threw)
    /\ StorageUnchanged

GetItem ==
    /\ \E key \in StorageKeys, decrypt \in BOOLEAN, lsOk \in BOOLEAN :
          result' = StorageResult("getItem", key, JNull, decrypt, FALSE,
                                  getItem(input, stored, key, decrypt, lsOk), FALSE)
    /\ UNCHANGED stored
    /\ StorageUnchanged

RemoveItem ==
    /\ \E key \in StorageKeys, lsOk \in BOOLEAN :
          LET out == removeItem(input, stored, key, lsOk)
          IN /\ stored' = out.store
             /\ result' = StorageResult("removeItem", key, JNull, FALSE, out.ret, JNull, FALSE)
    /\ StorageUnchanged

Clear ==
    /\ \E lsOk \in BOOLEAN :
          LET out == clear(input, stored, lsOk)
          IN /\ stored' = out.store
             /\ result' = StorageResult("clear", <<>>, JNull, FALSE, out.ret, JNull, FALSE)
    /\ StorageUnchanged

StorageNext ==
    \/ SetItem
    \/ GetItem
    \/ RemoveItem
    \/ Clear

StorageSpec == StorageInit /\ [][StorageNext]_vars

\* C21: on an available store getItem returns null for a key that is not in the
\* store, and right after a setItem(key, v) that returned true, getItem(key)
\* returns v, whatever v is.
C21_GetItemInvertsSetItem ==
    input.isAvailable =>
       /\ \A key \in StorageKeys :
             (input.keyPrefix \o key) \notin DOMAIN stored
                => getItem(input, stored, key, FALSE, TRUE) = JNull
       /\ (result.op = "setItem" /\ ~result.flag /\ result.ret)
             => getItem(input, stored, result.key, FALSE, TRUE) = result.value

\* C22: with the probe failed, no operation of the adapter throws, each returns
\* false or null, and the store is left as it was.
C22_UnavailableDegrades ==
    [][~input.isAvailable =>
          /\ ~result'.threw
          /\ ~result'.ret
          /\ result'.got = JNull
          /\ stored' = stored]_vars

\* C23: removeItem(key) changes at most the store key prefix + key; a clear()
\* that returns true removes every store key that starts with the prefix and no
\* other; both leave the other keys with their values.
C23_OnlyNamespaceTouched ==
    [][/\ result'.op = "removeItem" =>
             /\ DOMAIN stored' \subseteq DOMAIN stored
             /\ \A k \in DOMAIN stored :
                   k # input.keyPrefix \o result'.key => k \in DOMAIN stored' /\ stored'[k] = stored[k]
       /\ (result'.op = "clear" /\ result'.ret) =>
             /\ DOMAIN stored' = {k \in DOMAIN stored : ~StartsWith(k, input.keyPrefix)}
             /\ \A k \in DOMAIN stored' : stored'[k] = stored[k]]_vars

\* C23 for an adapter whose prefix is not empty
C23_NonEmptyPrefix ==
    [][input.keyPrefix # <<>> =>
          /\ result'.op = "removeItem" =>
                /\ DOMAIN stored' \subseteq DOMAIN stored
                /\ \A k \in DOMAIN stored :
                      k # input.keyPrefix \o result'.key
                         => k \in DOMAIN stored' /\ stored'[k] = stored[k]
          /\ (result'.op = "clear" /\ result'.ret) =>
                /\ DOMAIN stored' = {k \in DOMAIN stored : ~StartsWith(k, input.keyPrefix)}
                /\ \A k \in DOMAIN stored' : stored'[k] = stored[k]]_vars

\* C24: on an available store setItem(key, v, true) does not throw, and after
\* one that returned true getItem(key, true) returns v, for every v.
C24_ObfuscationReversible ==
    (input.isAvailable /\ result.op = "setItem" /\ result.flag) =>
       /\ ~result.threw
       /\ result.ret => getItem(input, stored, result.key, TRUE, TRUE) = result.value

----------------------------------------------------------------------------
(* SecurityManager.sanitizeInput *)

MaxSanitizeLen == 4   \* the longest string handed to sanitizeInput

\* The characters of the inputs; javascript: and data: are written as one
\* element each, which is not a word character because of its colon
SanitizeAlphabet == {"<", ">", SP, "a", "o", "n", "=", "data:", "javascript:"}

\* \w among the characters of the inputs
IsWordChar(c) == c \in {"a", "o", "n"}

\* .replace(/[<>]/g, '')
RemoveAngleBrackets(s) == SelectSeq(s, LAMBDA c : c # "<" /\ c # ">")

\* .replace(/javascript:/gi, '') and .replace(/data:/gi, '')
RemoveProtocol(s, protocol) == SelectSeq(s, LAMBDA c : c # protocol)

\* How many word characters s starts with
RECURSIVE WordRun(_)
WordRun(s) == IF s # <<>> /\ IsWordChar(Head(s)) THEN 1 + WordRun(Tail(s)) ELSE 0

\* The length of the match of /on\w+=/ at the start of s, 0 without a match
OnHandlerMatch(s) ==
    IF Len(s) >= 4 /\ s[1] = "o" /\ s[2] = "n"
    THEN LET run == WordRun(SubSeq(s, 3, Len(s)))
         IN IF run >= 1 /\ 2 + run < Len(s) /\ s[3 + run] = "=" THEN 3 + run ELSE 0
    ELSE 0

\* .replace(/on\w+=/gi, '')
RECURSIVE RemoveOnHandlers(_)
RemoveOnHandlers(s) ==
    IF s = <<>> THEN <<>>
    ELSE IF OnHandlerMatch(s) > 0
    THEN RemoveOnHandlers(SubSeq(s, OnHandlerMatch(s) + 1, Len(s)))
    ELSE <<Head(s)>> \o RemoveOnHandlers(Tail(s))

\* An input is a string, or another value given with its string form
SString(s) == [isString |-> TRUE, s |-> s]
SOther(s) == [isString |-> FALSE, s |-> s]

\* sanitizeInput: a value that is not a string is returned as String(input)
sanitizeInput(v) ==
    IF ~v.isString THEN v.s
    ELSE Trim(RemoveProtocol(RemoveOnHandlers(RemoveProtocol(RemoveAngleBrackets(v.s),
                                                             "javascript:")),
                             "data:"))

\* The number 5, the arrays ['<a>'] and [' a'], null
OtherInputs ==
    {SOther(<<"5">>), SOther(<<"<", "a", ">">>), SOther(<<SP, "a">>),
     SOther(<<"n", "u", "l", "l">>)}

SanitizeInputs == {SString(s) : s \in SeqsUpTo(SanitizeAlphabet, MaxSanitizeLen)} \cup OtherInputs

SanitizeInit ==
    /\ input \in SanitizeInputs
    /\ result = [op |-> "none", text |-> <<>>]
    /\ phase = "sanitize"
    /\ now = 0
    /\ entries = <<>>
    /\ cleaned = FALSE
    /\ stored = NotStored
    /\ currentSort = [column |-> "date", direction |-> "desc"]
    /\ currentLanguage = "en"
    /\ pending = {}
    /\ failures = 0
    /\ orig = <<>>
    /\ errors = <<>>
    /\ logged = 0
    /\ calls = <<>>
    /\ executed = <<>>
    /\ retry = NoRetry

SanitizeInput ==
    /\ result.op = "none"
    /\ result' = [op |-> "sanitizeInput", text |-> sanitizeInput(input)]
    /\ UNCHANGED <<entries, cleaned, stored, currentSort, currentLanguage, now, pending,
                   failures, orig, phase, input, errors, logged, calls, executed, retry>>

SanitizeNext == SanitizeInput

SanitizeSpec == SanitizeInit /\ [][SanitizeNext]_vars

\* The text has no angle bracket and no white space at either end
IsSanitized(text) ==
    /\ \A i \in 1..Len(text) : text[i] # "<" /\ text[i] # ">"
    /\ text # <<>> => text[1] \notin WhiteSpace /\ text[Len(text)] \notin WhiteSpace

\* C25: the result of sanitizeInput, for a string and for any other value alike,
\* has no '<', no '>' and no white space at its start or its end.
C25_SanitizedOutput == result.op = "sanitizeInput" => IsSanitized(result.text)

\* C25 for the inputs that are strings
C25_StringInputs ==
    (result.op = "sanitizeInput" /\ input.isString) => IsSanitized(result.text)

----------------------------------------------------------------------------
(* importFromCSV: the cap on the rows of one import *)

CapMargin == 30   \* the files have up to this many lines less or more than the cap

\* The lines of a file: the header, a row that imports, blank lines, and a last
\* row that imports
LinesOfFile(blank) == <<HeaderLine, RowOk9>> \o [i \in 1..blank |-> <<>>] \o <<RowOk1>>

\* The forEach over the slice; its callback returns at once for a blank row, so
\* the rows it goes on with are the rows of the slice that are not blank
ImportLines(ents, lines) ==
    ImportRows([entries |-> ents, importedCount |-> 0, skippedCount |-> 0], FALSE,
               SelectSeq(sliceMaxImportRows(Tail(lines)), LAMBDA rowStr : Trim(rowStr) # <<>>))

\* A file is chosen, by the number of its blank lines
CapInit ==
    /\ input \in [blank : (maxImportRows - CapMargin)..(maxImportRows + CapMargin)]
    /\ entries = <<>>
    /\ result = Idle
    /\ phase = "cap"
    /\ now = 0
    /\ cleaned = FALSE
    /\ stored = NotStored
    /\ currentSort = [column |-> "date", direction |-> "desc"]
    /\ currentLanguage = "en"
    /\ pending = {}
    /\ failures = 0
    /\ orig = <<>>
    /\ errors = <<>>
    /\ logged = 0
    /\ calls = <<>>
    /\ executed = <<>>
    /\ retry = NoRetry

\* reader.onload for the file, into the empty collection
ImportLongFile ==
    /\ result.op = "none"
    /\ LET acc == ImportLines(entries, LinesOfFile(input.blank))
       IN /\ entries' = sortEntries(acc.entries, currentSort)
          /\ stored' = saveEntries(acc.entries, FALSE, stored, TRUE)
          /\ result' = Report("onload", FALSE, FALSE, "ok", "success",
                              acc.importedCount, acc.skippedCount, <<>>)
    /\ UNCHANGED <<cleaned, currentSort, currentLanguage, now, pending, failures, orig,
                   phase, input, errors, logged, calls, executed, retry>>

CapNext == ImportLongFile

CapSpec == CapInit /\ [][CapNext]_vars

\* The place of the last row of the file among the lines after the header
LastRowIndex == input.blank + 2

\* C26: an entry is in the collection after the import only if its line is among
\* the first 10000 lines after the header, and no more than 10000 are added.
C26_ImportCapped ==
    result.op = "onload" =>
       /\ (\E i \in 1..Len(entries) : entries[i].id = <<"1">>) => LastRowIndex <= 10000
       /\ result.importedCount <= 10000
       /\ Len(entries) = result.importedCount

\* C26, its case: a file whose last row is beyond the first 10000 lines was
\* imported, its first row was added and its last was not.
C26_Witness ==
    /\ result.op = "onload"
    /\ LastRowIndex > 10000
    /\ Len(entries) = 1
    /\ entries[1].id = <<"9">>

----------------------------------------------------------------------------
(* The application: accounting of the import, cleanup, deletion, score range *)

\* C27: for every import, importedCount + skippedCount is the number of the
\* processed lines that are not blank, the collection has importedCount entries
\* more than before, and every entry it had before is still in it, as often.
C27_ImportAccounting ==
    [][OnLoadStep =>
          /\ result'.importedCount + result'.skippedCount
                = Cardinality(NonBlankRows(result'.text))
          /\ Len(entries') = Len(entries) + result'.importedCount
          /\ \A e \in Range(entries) : Count(entries', e) >= Count(entries, e)]_vars

\* C27, its case: FileMixed was imported into a collection that had the id 1;
\* one row was added and two were skipped.
C27_Witness ==
    /\ result.op = "onload"
    /\ result.text = FileMixed
    /\ result.importedCount = 1
    /\ result.skippedCount = 2
    /\ Len(entries) = 2
    /\ <<"1">> \in Ids(entries)

\* C28: what is stored under the entries key is at all times nothing or the
\* text of an array of entries, and an operation that runs after cleanup() leaves
\* the stored collection as it is.
C28_StoredStaysArray ==
    [][/\ stored'.kind \in {"absent", "array"}
       /\ cleaned => stored' = stored]_vars

\* What deleteEntry(id) is to do in a step: remove the entries of that id, no
\* other, and return true; or, with no such entry or an empty id, return false
\* and leave the collection and the stored value as they were
DeletesById(id) ==
    /\ ~result'.threw
    /\ IF id # <<>> /\ id \in Ids(entries)
       THEN /\ result'.ret
            /\ \A e \in Range(entries) \cup Range(entries') :
                  Count(entries', e) = IF e.id = id THEN 0 ELSE Count(entries, e)
       ELSE /\ ~result'.ret
            /\ entries' = entries
            /\ stored' = stored

\* C29: every deleteEntry(id) removes the entries of that id and no other and
\* returns true, or, when there is no such entry or the id is empty, returns
\* false and changes neither the collection nor what is stored.
C29_DeleteById ==
    [][result'.op = "deleteEntry" => \E id \in DeleteIds : DeletesById(id)]_vars

\* C29 for the calls of deleteEntry before cleanup()
C29_BeforeCleanup ==
    [][(result'.op = "deleteEntry" /\ ~cleaned) => \E id \in DeleteIds : DeletesById(id)]_vars

----------------------------------------------------------------------------
(* The score range: addEntry and import in both languages *)

MaxRangeEntries == 2   \* neither addEntry nor the import is offered to this many entries

RangeDomainKeys == {<<"phq-9">>, <<"aaq-ii">>, <<"maslach">>}
RangeScores == {<<"0">>, <<"6">>, <<"2", "7">>, <<"2", "8">>, <<"5", "0">>}
RangeImportIds == {<<"7">>, <<"8">>}

\* The application after its constructor, in one of the two languages
RangeInit ==
    /\ currentLanguage \in {"en", "fa"}
    /\ entries = <<>>
    /\ cleaned = FALSE
    /\ stored = NotStored
    /\ currentSort = [column |-> "date", direction |-> "desc"]
    /\ now = 1
    /\ pending = {}
    /\ result = Idle
    /\ failures = 0
    /\ orig = <<>>
    /\ phase = "range"
    /\ AuxInit

\* A submit of the form with a score; the clock has moved on by the next submit
\* after one that added its entry
AddScored ==
    /\ Len(entries) < MaxRangeEntries
    /\ \E domainKey \in RangeDomainKeys, score \in RangeScores :
          LET out == addEntry([id |-> NatToStr(now), date |-> Date1, domainKey |-> domainKey,
                               score |-> StrToNumber(score), note |-> <<>>], App, TRUE)
          IN /\ entries' = out.entries
             /\ stored' = out.stored
             /\ result' = out.result
             /\ now' = IF out.result.ret THEN now + 1 ELSE now
    /\ UNCHANGED aux
    /\ UNCHANGED <<cleaned, currentSort, currentLanguage, pending, failures, orig, phase>>

\* The import of a file of one row with a score
ImportScored ==
    /\ Len(entries) < MaxRangeEntries
    /\ \E id \in RangeImportIds, domainKey \in RangeDomainKeys, score \in RangeScores :
          LET out == onload(FileText(<<Line(id, Date1, domainKey, score, <<DQuote, DQuote>>)>>),
                            App, TRUE)
          IN /\ entries' = out.entries
             /\ stored' = out.stored
             /\ result' = out.result
    /\ UNCHANGED aux
    /\ UNCHANGED <<cleaned, currentSort, currentLanguage, now, pending, failures, orig, phase>>

RangeNext ==
    \/ AddScored
    \/ ImportScored

RangeSpec == RangeInit /\ [][RangeNext]_vars

\* The two ends of the catalog range of a domain, for a range written min-max
RangeEnds(k) ==
    LET parts == Split(EnScoreRange[k], "-")
    IN IF Len(parts) = 2 /\ ~IsNaN(ParseInt(parts[1])) /\ ~IsNaN(ParseInt(parts[2]))
       THEN [some |-> TRUE, min |-> ParseInt(parts[1]), max |-> ParseInt(parts[2])]
       ELSE [some |-> FALSE, min |-> NaN, max |-> NaN]

ScoreInRange(e) ==
    (Len(e.domainKey) = 1 /\ e.domainKey[1] \in CatalogKeys /\ RangeEnds(e.domainKey[1]).some)
       => /\ NumLeq(RangeEnds(e.domainKey[1]).min, e.score)
          /\ NumLeq(e.score, RangeEnds(e.domainKey[1]).max)

\* The range check gives the same for the en and the fa text of every range
SameInBothLanguages ==
    \A k \in RangeDomainKeys, score \in RangeScores :
       validateScoreRange(StrToNumber(score), DomainOf("en", k))
          = validateScoreRange(StrToNumber(score), DomainOf("fa", k))

\* C30: after any sequence of addEntry and import, the score of every entry
\* whose domain has a range min-max is within it, and the range check gives the
\* same result for the range in Latin and in Persian digits.
C30_ScoresWithinRange ==
    /\ \A i \in 1..Len(entries) : ScoreInRange(entries[i])
    /\ SameInBothLanguages

\* C30 for addEntry: an entry addEntry adds is within its range, in en and fa
C30_AddEntryChecksRange ==
    [][(result'.op = "addEntry" /\ result'.ret) =>
          /\ \E e \in Range(entries') : e.id = NatToStr(now) /\ ScoreInRange(e)
          /\ SameInBothLanguages]_vars

====
